---- MODULE Spec2Model ----
(***************************************************************************)
(* Duel escrow sidecar: the escrow engine (duel-escrow.ts), the in-memory  *)
(* store (memory-store.ts), the stealth mapping (stealth.ts) and the       *)
(* accountability service (accountability.ts), as one state machine.       *)
(*                                                                         *)
(* Scheduling: Node.js runs one handler at a time; a handler gives up the  *)
(* processor only where it awaits real I/O (ledger publication, a transfer *)
(* to the ZK backend, the retry timer).  Every action below is one such    *)
(* run-to-next-await segment of one handler.  The duel record is a single  *)
(* heap object shared by the store and by every handler that has read it.  *)
(* Error messages are kept up to their first interpolated value.  Amounts  *)
(* are in smallest units; the tokens modelled are SOL and USD1.            *)
(***************************************************************************)
EXTENDS Integers, Sequences, FiniteSets, TLC

(***************************************************************************)
(* Bounds of the model.                                                    *)
(***************************************************************************)
MaxDuels == 2
MaxDuelsLifecycle == 1
MaxCalls == 2
MaxTicks == 2
MaxAudit == 2
MaxOverLimit == 2
MaxLen == 2

DuelIds == 1..MaxDuels
\* the duels of the specifications that follow one duel through its life
LifecycleDuelIds == 1..MaxDuelsLifecycle
Slots == 1..MaxCalls

(***************************************************************************)
(* Program constants.                                                      *)
(***************************************************************************)
SETTLEMENT_TTL == 24 * 60 * 60 * 1000
MAX_RETRIES == 3
RATE_LIMIT_WINDOW_MS == 60 * 1000
RATE_LIMIT_MAX == 100
RETRY_DELAY_MS == 2000
MIN_LOCK_TTL_MS == 1000
SHADOWWIRE_MIN_TRANSFER == 100000000
COMMITMENT_VERSION == 1
\* SHADOWWIRE_FEE_PERCENT = 0.5, kept in tenths of a percent
SHADOWWIRE_FEE_PERMILLE == 5

Tokens == {"SOL", "USD1"}

TOKEN_DECIMALS(t) == IF t = "USD1" THEN 6 ELSE 9

\* config.ts TOKEN_MINIMUMS, the table duel-escrow.ts imports
TOKEN_MINIMUMS(t) == IF t = "USD1" THEN 5500000 ELSE 110000000

\* shadowwire-direct.ts TOKEN_MINIMUMS: the transfer backend's own minimums
TRANSFER_MINIMUMS(t) == IF t = "USD1" THEN 5000000 ELSE 100000000

\* shadowwire-direct.ts getFeeInfo: fee per token in tenths of a percent
FeePermille(t) == IF t = "USD1" THEN 10 ELSE 5

RECURSIVE Pow10(_)
Pow10(n) == IF n = 0 THEN 1 ELSE 10 * Pow10(n - 1)

\* x * num / den rounded down, without forming x * num (32-bit integers)
MulDivFloor(x, num, den) ==
    (x \div den) * num + ((x % den) * num) \div den

(***************************************************************************)
(* Stealth ids.  A wallet is a sequence of characters; the pepper is fixed.*)
(***************************************************************************)
RECURSIVE TrimLeft(_)
TrimLeft(w) == IF w # <<>> /\ Head(w) = " " THEN TrimLeft(Tail(w)) ELSE w

RECURSIVE TrimRight(_)
TrimRight(w) ==
    IF w # <<>> /\ w[Len(w)] = " " THEN TrimRight(SubSeq(w, 1, Len(w) - 1)) ELSE w

Trim(w) == TrimRight(TrimLeft(w))

\* a stealth id of the string as given, not normalised
generateStealthIdRaw(w) == [hmac |-> w]

\* HMAC-SHA256 under the pepper: a one-to-one tag of the normalised wallet
generateStealthId(w) == [hmac |-> Trim(w)]

timingSafeEqual(a, b) == a = b

verifyStealthId(w, sid) == timingSafeEqual(generateStealthId(w), sid)

NoStealth == [hmac |-> <<>>]

(***************************************************************************)
(* State.                                                                  *)
(***************************************************************************)
VARIABLES
    now,              \* Date.now(), milliseconds
    ticks,            \* number of clock advances so far
    houseFeePercent,  \* config.HOUSE_FEE_PERCENT
    escrowTimeoutMs,  \* config.escrowTimeoutMs
    duels,            \* the DuelSession objects, by duel id
    store,            \* MemoryStore.duels: id -> expiry of the stored item
    sessionMap,       \* StealthMappingService.sessionMap
    dust,             \* MemoryStore.dust
    pendingRecovery,  \* MemoryStore.pendingRecovery
    failedRecovery,   \* MemoryStore.failedRecovery
    auditLog,         \* AccountabilityService.auditLog
    calls,            \* handlers suspended at an await
    paid,             \* per duel: transfers that succeeded so far
    ev,               \* what the step just taken did
    isDevelopment,    \* config.isDevelopment
    rateLimitMap,     \* auth.ts rateLimitMap: client -> {count, resetAt}
    request,          \* the HTTP request the step just taken served, if any
    stealthCheck      \* a caller of stealth.ts: its two wallets, the id, the answer

vars == <<now, ticks, houseFeePercent, escrowTimeoutMs, duels, store, sessionMap, dust,
          pendingRecovery, failedRecovery, auditLog, calls, paid, ev,
          isDevelopment, rateLimitMap, request, stealthCheck>>

\* what lies outside the duel engine: the server's middleware and a direct
\* caller of the stealth functions
gate == <<isDevelopment, rateLimitMap, request, stealthCheck>>

\* what the duel engine keeps
engine == <<now, ticks, houseFeePercent, escrowTimeoutMs, duels, store, sessionMap, dust,
            pendingRecovery, failedRecovery, auditLog, calls, paid>>

NoParticipant ==
    [stealthId |-> NoStealth, stakeAmount |-> 0, stakeLocked |-> FALSE,
     lockTxSignature |-> "", lockTimestamp |-> 0]

NoDuel ==
    [status |-> "NONE", player1 |-> NoParticipant, player2 |-> NoParticipant,
     token |-> "", houseFeePercent |-> 0, createdAt |-> 0, updatedAt |-> 0,
     expiresAt |-> 0, winnerStealthId |-> NoStealth,
     settlementTxSignatures |-> <<>>]

NoItem == [has |-> FALSE, expiresAt |-> 0]

NoTx == <<>>

NoXfer == [to |-> <<>>, amt |-> 0, token |-> "", ok |-> FALSE, tx |-> NoTx]

NoEv ==
    [op |-> "none", slot |-> 0, duel |-> 0, done |-> FALSE, success |-> FALSE,
     error |-> "", http |-> 0, W |-> 0, H |-> 0, wtx |-> NoTx, ttx |-> NoTx,
     txs |-> <<>>, lockTx |-> "", bothLocked |-> FALSE, dustAdd |-> 0, xfer |-> NoXfer,
     wxfer |-> NoXfer, nfail |-> 0, wallet |-> <<>>, xfers |-> 0,
     answers |-> <<>>, published |-> "", token |-> "", stake |-> 0,
     retryAfter |-> 0]

\* req.ip of the callers
Clients == {"ip1", "ip2"}

NoEntry == [has |-> FALSE, count |-> 0, resetAt |-> 0]

NoRequest == [mount |-> "", method |-> "", header |-> "", client |-> ""]

NoCheck == [pc |-> "none", wallet |-> <<>>, other |-> <<>>, id |-> NoStealth,
            verified |-> FALSE]

IdleCall ==
    [kind |-> "idle", pc |-> "idle", duel |-> 0, winner |-> <<>>,
     sig |-> "", token |-> "", stake |-> 0, W |-> 0, H |-> 0, attempt |-> 0,
     wakeAt |-> 0, req |-> NoXfer, wxfer |-> NoXfer, commitment |-> <<>>,
     audited |-> FALSE, xfersBeforeAudit |-> 0, xfers |-> 0,
     nfail |-> 0, sigs |-> <<>>, w1 |-> <<>>, w2 |-> <<>>, ok1 |-> FALSE,
     answers |-> <<>>, stakePerPlayerLamports |-> 0]

NoPaid == [winner |-> 0, refund |-> 0]

(***************************************************************************)
(* MemoryStore.                                                            *)
(***************************************************************************)
\* setDuel: expiry is Date.now() + ttlMs
setDuel(s, d, ttlMs) == [s EXCEPT ![d] = [has |-> TRUE, expiresAt |-> now + ttlMs]]

\* an item that is still served at its expiry time
ExpiredStrictly(item) == item.has /\ item.expiresAt < now

Expired(item) == item.has /\ item.expiresAt <= now

\* getDuel returns the object unless the item is missing or past its expiry
getDuelFound(s, d) == s[d].has /\ ~Expired(s[d])

\* getDuel deletes an expired item on the way
getDuelStore(s, d) == IF Expired(s[d]) THEN [s EXCEPT ![d] = NoItem] ELSE s

\* cleanup: the 60 s reaper
cleanup(s) == [d \in DOMAIN s |-> IF Expired(s[d]) THEN NoItem ELSE s[d]]

accumulateDust(m, t, amount) == [m EXCEPT ![t] = @ + amount]

resetDust(m, t) == [m EXCEPT ![t] = 0]

(***************************************************************************)
(* StealthMappingService.                                                  *)
(***************************************************************************)
register(m, w) ==
    LET sid == generateStealthId(w)
    IN  [x \in (DOMAIN m) \cup {sid} |-> IF x = sid THEN w ELSE m[x]]

unregister(m, sid) == [x \in (DOMAIN m) \ {sid} |-> m[x]]

resolves(m, sid) == sid \in DOMAIN m

(***************************************************************************)
(* Initial state: the services are initialised, nothing is stored.         *)
(***************************************************************************)
InitWith(fees, timeouts) ==
    /\ now = 0
    /\ ticks = 0
    /\ houseFeePercent \in fees
    /\ escrowTimeoutMs \in timeouts
    /\ duels = [d \in DuelIds |-> NoDuel]
    /\ store = [d \in DuelIds |-> NoItem]
    /\ sessionMap = <<>>
    /\ dust = [t \in Tokens |-> 0]
    /\ pendingRecovery = {}
    /\ failedRecovery = {}
    /\ auditLog = <<>>
    /\ calls = [s \in Slots |-> IdleCall]
    /\ paid = [d \in DuelIds |-> NoPaid]
    /\ ev = NoEv
    /\ isDevelopment = FALSE
    /\ rateLimitMap = [c \in Clients |-> NoEntry]
    /\ request = NoRequest
    /\ stealthCheck = NoCheck

(***************************************************************************)
(* createDuel.  The stake arrives in human units, given here in hundredths *)
(* of a token; generateDuelId draws a fresh id.                            *)
(***************************************************************************)
StakeSmallestUnit(stakeCenti, token) ==
    stakeCenti * Pow10(TOKEN_DECIMALS(token) - 2)

FreshDuelId(d) ==
    /\ duels[d].status = "NONE"
    /\ \A e \in DuelIds : e < d => duels[e].status # "NONE"

\* a create that also turns away a stake equal to the minimum
CreateDuelAboveMinimum(d, player1Wallet, player2Wallet, stakeCenti, token) ==
    LET stake == StakeSmallestUnit(stakeCenti, token)
        minAmount == TOKEN_MINIMUMS(token)
        m1 == register(sessionMap, player1Wallet)
        m2 == register(m1, player2Wallet)
        duel == [NoDuel EXCEPT
                    !.status = "PENDING_STAKES",
                    !.player1 = [NoParticipant EXCEPT
                                    !.stealthId = generateStealthId(player1Wallet),
                                    !.stakeAmount = stake],
                    !.player2 = [NoParticipant EXCEPT
                                    !.stealthId = generateStealthId(player2Wallet),
                                    !.stakeAmount = stake],
                    !.token = token,
                    !.houseFeePercent = houseFeePercent,
                    !.createdAt = now,
                    !.updatedAt = now,
                    !.expiresAt = now + escrowTimeoutMs]
    IN  /\ FreshDuelId(d)
        /\ player1Wallet # player2Wallet
        /\ IF stake <= minAmount
           THEN /\ ev' = [NoEv EXCEPT !.op = "create", !.done = TRUE,
                                      !.error = "Stake too low", !.http = 400,
                                      !.token = token, !.stake = stake]
                /\ UNCHANGED <<duels, store, sessionMap>>
           ELSE /\ duels' = [duels EXCEPT ![d] = duel]
                /\ store' = setDuel(store, d, escrowTimeoutMs)
                /\ sessionMap' = m2
                /\ ev' = [NoEv EXCEPT !.op = "create", !.duel = d, !.done = TRUE,
                                      !.success = TRUE, !.http = 201,
                                      !.token = token, !.stake = stake]
        /\ UNCHANGED <<now, ticks, houseFeePercent, escrowTimeoutMs, dust, pendingRecovery,
                       failedRecovery, auditLog, calls, paid>>

CreateDuel(d, player1Wallet, player2Wallet, stakeCenti, token) ==
    LET stake == StakeSmallestUnit(stakeCenti, token)
        minAmount == TOKEN_MINIMUMS(token)
        m1 == register(sessionMap, player1Wallet)
        m2 == register(m1, player2Wallet)
        duel == [NoDuel EXCEPT
                    !.status = "PENDING_STAKES",
                    !.player1 = [NoParticipant EXCEPT
                                    !.stealthId = generateStealthId(player1Wallet),
                                    !.stakeAmount = stake],
                    !.player2 = [NoParticipant EXCEPT
                                    !.stealthId = generateStealthId(player2Wallet),
                                    !.stakeAmount = stake],
                    !.token = token,
                    !.houseFeePercent = houseFeePercent,
                    !.createdAt = now,
                    !.updatedAt = now,
                    !.expiresAt = now + escrowTimeoutMs]
    IN  /\ FreshDuelId(d)
        /\ player1Wallet # player2Wallet
        /\ IF stake < minAmount
           THEN /\ ev' = [NoEv EXCEPT !.op = "create", !.done = TRUE,
                                      !.error = "Stake too low", !.http = 400,
                                      !.token = token, !.stake = stake]
                /\ UNCHANGED <<duels, store, sessionMap>>
           ELSE /\ duels' = [duels EXCEPT ![d] = duel]
                /\ store' = setDuel(store, d, escrowTimeoutMs)
                /\ sessionMap' = m2
                /\ ev' = [NoEv EXCEPT !.op = "create", !.duel = d, !.done = TRUE,
                                      !.success = TRUE, !.http = 201,
                                      !.token = token, !.stake = stake]
        /\ UNCHANGED <<now, ticks, houseFeePercent, escrowTimeoutMs, dust, pendingRecovery,
                       failedRecovery, auditLog, calls, paid>>

(***************************************************************************)
(* lockStakeWithProof.  A payment proof is either a raw tx signature or a  *)
(* JSON object that carries one under txSignature, signature or tx.        *)
(***************************************************************************)
ExtractTxSignature(proof) ==
    IF proof.json /\ proof.key \in {"txSignature", "signature", "tx"}
    THEN proof.value
    ELSE proof.text

\* a lock without the test for a stake that is already locked
LockStakeWithProofAgain(d, playerWallet, paymentProof) ==
    LET duel == duels[d]
        isP1 == verifyStealthId(playerWallet, duel.player1.stealthId)
        isP2 == verifyStealthId(playerWallet, duel.player2.stealthId)
        player == IF isP1 THEN duel.player1 ELSE duel.player2
        locked == [player EXCEPT !.stakeLocked = TRUE,
                                 !.lockTxSignature = ExtractTxSignature(paymentProof),
                                 !.lockTimestamp = now]
        d1 == IF isP1 THEN [duel EXCEPT !.player1 = locked, !.updatedAt = now]
                      ELSE [duel EXCEPT !.player2 = locked, !.updatedAt = now]
        bothLocked == d1.player1.stakeLocked /\ d1.player2.stakeLocked
        d2 == IF bothLocked THEN [d1 EXCEPT !.status = "ACTIVE"] ELSE d1
        ttl == duel.expiresAt - now
        fail(msg, code) ==
            /\ ev' = [NoEv EXCEPT !.op = "lock", !.duel = d, !.done = TRUE,
                                  !.error = msg, !.http = code,
                                  !.wallet = playerWallet]
            /\ store' = getDuelStore(store, d)
            /\ UNCHANGED duels
    IN  /\ IF ~getDuelFound(store, d) THEN fail("Duel not found", 404)
           ELSE IF duel.status # "PENDING_STAKES" THEN fail("Invalid duel status", 200)
           ELSE IF now > duel.expiresAt THEN fail("Duel has expired", 200)
           ELSE IF ~isP1 /\ ~isP2 THEN fail("Player not part of this duel", 200)
           ELSE /\ duels' = [duels EXCEPT ![d] = d2]
                /\ store' = setDuel(store, d, IF ttl > MIN_LOCK_TTL_MS THEN ttl
                                              ELSE MIN_LOCK_TTL_MS)
                /\ ev' = [NoEv EXCEPT !.op = "lock", !.duel = d, !.done = TRUE,
                                      !.success = TRUE, !.http = 200,
                                      !.bothLocked = bothLocked,
                                      !.lockTx = ExtractTxSignature(paymentProof),
                                      !.wallet = playerWallet]
        /\ UNCHANGED <<now, ticks, houseFeePercent, escrowTimeoutMs, sessionMap, dust,
                       pendingRecovery, failedRecovery, auditLog, calls, paid>>

\* a lock that takes one locked stake as enough to start the duel
LockStakeWithProofEither(d, playerWallet, paymentProof) ==
    LET duel == duels[d]
        isP1 == verifyStealthId(playerWallet, duel.player1.stealthId)
        isP2 == verifyStealthId(playerWallet, duel.player2.stealthId)
        player == IF isP1 THEN duel.player1 ELSE duel.player2
        locked == [player EXCEPT !.stakeLocked = TRUE,
                                 !.lockTxSignature = ExtractTxSignature(paymentProof),
                                 !.lockTimestamp = now]
        d1 == IF isP1 THEN [duel EXCEPT !.player1 = locked, !.updatedAt = now]
                      ELSE [duel EXCEPT !.player2 = locked, !.updatedAt = now]
        bothLocked == d1.player1.stakeLocked \/ d1.player2.stakeLocked
        d2 == IF bothLocked THEN [d1 EXCEPT !.status = "ACTIVE"] ELSE d1
        ttl == duel.expiresAt - now
        fail(msg, code) ==
            /\ ev' = [NoEv EXCEPT !.op = "lock", !.duel = d, !.done = TRUE,
                                  !.error = msg, !.http = code,
                                  !.wallet = playerWallet]
            /\ store' = getDuelStore(store, d)
            /\ UNCHANGED duels
    IN  /\ IF ~getDuelFound(store, d) THEN fail("Duel not found", 404)
           ELSE IF duel.status # "PENDING_STAKES" THEN fail("Invalid duel status", 200)
           ELSE IF now > duel.expiresAt THEN fail("Duel has expired", 200)
           ELSE IF ~isP1 /\ ~isP2 THEN fail("Player not part of this duel", 200)
           ELSE IF player.stakeLocked THEN fail("Stake already locked", 200)
           ELSE /\ duels' = [duels EXCEPT ![d] = d2]
                /\ store' = setDuel(store, d, IF ttl > MIN_LOCK_TTL_MS THEN ttl
                                              ELSE MIN_LOCK_TTL_MS)
                /\ ev' = [NoEv EXCEPT !.op = "lock", !.duel = d, !.done = TRUE,
                                      !.success = TRUE, !.http = 200,
                                      !.bothLocked = bothLocked,
                                      !.lockTx = ExtractTxSignature(paymentProof),
                                      !.wallet = playerWallet]
        /\ UNCHANGED <<now, ticks, houseFeePercent, escrowTimeoutMs, sessionMap, dust,
                       pendingRecovery, failedRecovery, auditLog, calls, paid>>

\* a lock that reads both flags before it sets the caller's
LockStakeWithProofStale(d, playerWallet, paymentProof) ==
    LET duel == duels[d]
        isP1 == verifyStealthId(playerWallet, duel.player1.stealthId)
        isP2 == verifyStealthId(playerWallet, duel.player2.stealthId)
        player == IF isP1 THEN duel.player1 ELSE duel.player2
        locked == [player EXCEPT !.stakeLocked = TRUE,
                                 !.lockTxSignature = ExtractTxSignature(paymentProof),
                                 !.lockTimestamp = now]
        d1 == IF isP1 THEN [duel EXCEPT !.player1 = locked, !.updatedAt = now]
                      ELSE [duel EXCEPT !.player2 = locked, !.updatedAt = now]
        bothLocked == duel.player1.stakeLocked /\ duel.player2.stakeLocked
        d2 == IF bothLocked THEN [d1 EXCEPT !.status = "ACTIVE"] ELSE d1
        ttl == duel.expiresAt - now
        fail(msg, code) ==
            /\ ev' = [NoEv EXCEPT !.op = "lock", !.duel = d, !.done = TRUE,
                                  !.error = msg, !.http = code,
                                  !.wallet = playerWallet]
            /\ store' = getDuelStore(store, d)
            /\ UNCHANGED duels
    IN  /\ IF ~getDuelFound(store, d) THEN fail("Duel not found", 404)
           ELSE IF duel.status # "PENDING_STAKES" THEN fail("Invalid duel status", 200)
           ELSE IF now > duel.expiresAt THEN fail("Duel has expired", 200)
           ELSE IF ~isP1 /\ ~isP2 THEN fail("Player not part of this duel", 200)
           ELSE IF player.stakeLocked THEN fail("Stake already locked", 200)
           ELSE /\ duels' = [duels EXCEPT ![d] = d2]
                /\ store' = setDuel(store, d, IF ttl > MIN_LOCK_TTL_MS THEN ttl
                                              ELSE MIN_LOCK_TTL_MS)
                /\ ev' = [NoEv EXCEPT !.op = "lock", !.duel = d, !.done = TRUE,
                                      !.success = TRUE, !.http = 200,
                                      !.bothLocked = bothLocked,
                                      !.lockTx = ExtractTxSignature(paymentProof),
                                      !.wallet = playerWallet]
        /\ UNCHANGED <<now, ticks, houseFeePercent, escrowTimeoutMs, sessionMap, dust,
                       pendingRecovery, failedRecovery, auditLog, calls, paid>>

LockStakeWithProof(d, playerWallet, paymentProof) ==
    LET duel == duels[d]
        isP1 == verifyStealthId(playerWallet, duel.player1.stealthId)
        isP2 == verifyStealthId(playerWallet, duel.player2.stealthId)
        player == IF isP1 THEN duel.player1 ELSE duel.player2
        locked == [player EXCEPT !.stakeLocked = TRUE,
                                 !.lockTxSignature = ExtractTxSignature(paymentProof),
                                 !.lockTimestamp = now]
        d1 == IF isP1 THEN [duel EXCEPT !.player1 = locked, !.updatedAt = now]
                      ELSE [duel EXCEPT !.player2 = locked, !.updatedAt = now]
        bothLocked == d1.player1.stakeLocked /\ d1.player2.stakeLocked
        d2 == IF bothLocked THEN [d1 EXCEPT !.status = "ACTIVE"] ELSE d1
        ttl == duel.expiresAt - now
        fail(msg, code) ==
            /\ ev' = [NoEv EXCEPT !.op = "lock", !.duel = d, !.done = TRUE,
                                  !.error = msg, !.http = code,
                                  !.wallet = playerWallet]
            /\ store' = getDuelStore(store, d)
            /\ UNCHANGED duels
    IN  /\ IF ~getDuelFound(store, d) THEN fail("Duel not found", 404)
           ELSE IF duel.status # "PENDING_STAKES" THEN fail("Invalid duel status", 200)
           ELSE IF now > duel.expiresAt THEN fail("Duel has expired", 200)
           ELSE IF ~isP1 /\ ~isP2 THEN fail("Player not part of this duel", 200)
           ELSE IF player.stakeLocked THEN fail("Stake already locked", 200)
           ELSE /\ duels' = [duels EXCEPT ![d] = d2]
                /\ store' = setDuel(store, d, IF ttl > MIN_LOCK_TTL_MS THEN ttl
                                              ELSE MIN_LOCK_TTL_MS)
                /\ ev' = [NoEv EXCEPT !.op = "lock", !.duel = d, !.done = TRUE,
                                      !.success = TRUE, !.http = 200,
                                      !.bothLocked = bothLocked,
                                      !.lockTx = ExtractTxSignature(paymentProof),
                                      !.wallet = playerWallet]
        /\ UNCHANGED <<now, ticks, houseFeePercent, escrowTimeoutMs, sessionMap, dust,
                       pendingRecovery, failedRecovery, auditLog, calls, paid>>

(***************************************************************************)
(* The clock and the reaper.                                               *)
(***************************************************************************)
\* a retry timer is pending
TimerPending == \E s \in DOMAIN calls : calls[s].pc = "delay" /\ calls[s].wakeAt > now

Tick(dt) ==
    /\ ticks < MaxTicks
    /\ now' = now + dt
    /\ ticks' = ticks + 1
    /\ ev' = NoEv
    /\ UNCHANGED <<houseFeePercent, escrowTimeoutMs, duels, store, sessionMap, dust,
                   pendingRecovery, failedRecovery, auditLog, calls, paid>>

Cleanup ==
    /\ store' = cleanup(store)
    /\ store' # store
    /\ ev' = [NoEv EXCEPT !.op = "cleanup"]
    /\ UNCHANGED <<now, ticks, houseFeePercent, escrowTimeoutMs, duels, sessionMap, dust,
                   pendingRecovery, failedRecovery, auditLog, calls, paid>>

(***************************************************************************)
(* Handler bookkeeping: a handler that must await takes the lowest idle    *)
(* slot; a transfer request is outstanding until the backend answers.      *)
(***************************************************************************)
FreeSlot(s) ==
    /\ calls[s].kind = "idle"
    /\ \A r \in Slots : r < s => calls[r].kind # "idle"

\* transferFromEscrow(to, amount, token) called: the request is now in flight
IssueTransfer(c, to, amt, token) ==
    [c EXCEPT !.req = [to |-> to, amt |-> amt, token |-> token, ok |-> FALSE, tx |-> NoTx],
              !.xfers = @ + 1]

\* the tx id the backend returns for a transfer it carried out
TxId(req) == <<"tx", req.to>>

\* the tx id of a ledger memo
MemoTx == <<"memo">>

\* the backend's answer to the outstanding request
Answered(c, ok) == [c.req EXCEPT !.ok = ok, !.tx = IF ok THEN TxId(c.req) ELSE NoTx]

\* the call's record once the answer is in: failed transfers are counted and
\* the answered request joins the call's results
Noted(c, ok) ==
    [c EXCEPT !.nfail = @ + (IF ok THEN 0 ELSE 1),
              !.answers = Append(@, Answered(c, ok))]

(***************************************************************************)
(* settleDuel: payout math.                                                *)
(***************************************************************************)
\* Math.floor(stakePerPlayer * (1 - SHADOWWIRE_FEE_PERCENT / 100))
ActualDepositPerPlayer(stakePerPlayer) ==
    MulDivFloor(stakePerPlayer, 1000 - SHADOWWIRE_FEE_PERMILLE, 1000)

ActualTotalPot(stakePerPlayer) == ActualDepositPerPlayer(stakePerPlayer) * 2

\* Math.floor(actualTotalPot * duel.houseFeePercent / 100)
HouseFee(stakePerPlayer, feePercent) ==
    MulDivFloor(ActualTotalPot(stakePerPlayer), feePercent, 100)

WinnerPayout(stakePerPlayer, feePercent) ==
    ActualTotalPot(stakePerPlayer) - HouseFee(stakePerPlayer, feePercent)

(***************************************************************************)
(* AccountabilityService.                                                  *)
(***************************************************************************)
\* a commitment that names the two participants the wrong way round
createCommitmentSwapped(d, winnerStealthId, loserStealthId, gameServerSignature) ==
    [duelId |-> d, winnerStealthId |-> loserStealthId,
     loserStealthId |-> winnerStealthId,
     gameServerSignature |-> gameServerSignature,
     timestamp |-> now, version |-> COMMITMENT_VERSION]

createCommitment(d, winnerStealthId, loserStealthId, gameServerSignature) ==
    [duelId |-> d, winnerStealthId |-> winnerStealthId,
     loserStealthId |-> loserStealthId,
     gameServerSignature |-> gameServerSignature,
     timestamp |-> now, version |-> COMMITMENT_VERSION]

\* JSON.stringify: the fields in insertion order
Serialize(c) ==
    <<c.duelId, c.winnerStealthId, c.loserStealthId, c.gameServerSignature,
      c.timestamp, c.version>>

\* SHA-256 of the serialisation: a one-to-one tag of the bytes hashed
hashCommitment(c) == [sha256 |-> Serialize(c)]

\* a record that carries a ledger tx id whatever the publication outcome
CommitmentRecordWithTx(c, onChainOk) ==
    [commitment |-> c, commitmentHash |-> hashCommitment(c),
     onChainTxSignature |-> MemoTx,
     onChainSuccess |-> onChainOk, recordedAt |-> now]

\* commitToSettlement after the publication attempt has returned
CommitmentRecord(c, onChainOk) ==
    [commitment |-> c, commitmentHash |-> hashCommitment(c),
     onChainTxSignature |-> IF onChainOk THEN MemoTx ELSE NoTx,
     onChainSuccess |-> onChainOk, recordedAt |-> now]

\* a log that keeps a record only when its publication succeeded
AuditAppendPublishedOnly(log, record) ==
    IF record.onChainSuccess THEN Append(log, record) ELSE log

\* a log that takes every record twice
AuditAppendTwice(log, record) == Append(Append(log, record), record)

\* this.auditLog.push(record): always, whatever the publication outcome
AuditAppend(log, record) == Append(log, record)

\* getCommitmentRecord: auditLog.find, the first record of the duel, if any
getCommitmentRecord(log, d) ==
    LET found == {i \in 1..Len(log) : log[i].commitment.duelId = d}
    IN  IF found = {} THEN <<>>
        ELSE <<log[CHOOSE i \in found : \A j \in found : i <= j]>>

(***************************************************************************)
(* settleDuel, first segment: load, preconditions, payout math, build the  *)
(* commitment and start its publication.                                   *)
(***************************************************************************)
SettleFail(d, winnerWallet, msg) ==
    /\ ev' = [NoEv EXCEPT !.op = "settle", !.duel = d, !.done = TRUE,
                          !.error = msg, !.http = 200, !.wallet = winnerWallet]
    /\ store' = getDuelStore(store, d)
    /\ UNCHANGED <<calls, auditLog>>

\* a settle that does not look at who the winner is
SettleStartAnyWinner(s, d, winnerWallet, gameServerSignature) ==
    LET duel == duels[d]
        isPlayer1Winner == verifyStealthId(winnerWallet, duel.player1.stealthId)
        isPlayer2Winner == verifyStealthId(winnerWallet, duel.player2.stealthId)
        stakePerPlayer == duel.player1.stakeAmount
        winnerStealthId == generateStealthId(winnerWallet)
        loserStealthId == IF isPlayer1Winner THEN duel.player2.stealthId
                                             ELSE duel.player1.stealthId
        call == [IdleCall EXCEPT
                    !.kind = "settle", !.pc = "commit", !.duel = d,
                    !.winner = winnerWallet, !.sig = gameServerSignature,
                    !.token = duel.token,
                    !.H = HouseFee(stakePerPlayer, duel.houseFeePercent),
                    !.W = WinnerPayout(stakePerPlayer, duel.houseFeePercent),
                    !.commitment = <<createCommitment(d, winnerStealthId,
                                        loserStealthId, gameServerSignature)>>]
    IN  /\ IF ~getDuelFound(store, d) THEN SettleFail(d, winnerWallet, "Duel not found")
           ELSE IF duel.status \notin {"ACTIVE", "PENDING_SETTLEMENT"}
                THEN SettleFail(d, winnerWallet, "Invalid duel status")
           ELSE /\ FreeSlot(s)
                /\ Len(auditLog) + Cardinality({r \in Slots : calls[r].pc = "commit"})
                       < MaxAudit
                /\ calls' = [calls EXCEPT ![s] = call]
                /\ ev' = [NoEv EXCEPT !.op = "settle", !.slot = s, !.duel = d,
                                      !.wallet = winnerWallet]
                /\ UNCHANGED <<store, auditLog>>
        /\ UNCHANGED <<now, ticks, houseFeePercent, escrowTimeoutMs, duels, sessionMap, dust,
                       pendingRecovery, failedRecovery, paid>>

SettleStart(s, d, winnerWallet, gameServerSignature) ==
    LET duel == duels[d]
        isPlayer1Winner == verifyStealthId(winnerWallet, duel.player1.stealthId)
        isPlayer2Winner == verifyStealthId(winnerWallet, duel.player2.stealthId)
        stakePerPlayer == duel.player1.stakeAmount
        winnerStealthId == generateStealthId(winnerWallet)
        loserStealthId == IF isPlayer1Winner THEN duel.player2.stealthId
                                             ELSE duel.player1.stealthId
        call == [IdleCall EXCEPT
                    !.kind = "settle", !.pc = "commit", !.duel = d,
                    !.winner = winnerWallet, !.sig = gameServerSignature,
                    !.token = duel.token,
                    !.H = HouseFee(stakePerPlayer, duel.houseFeePercent),
                    !.W = WinnerPayout(stakePerPlayer, duel.houseFeePercent),
                    !.commitment = <<createCommitment(d, winnerStealthId,
                                        loserStealthId, gameServerSignature)>>]
    IN  /\ IF ~getDuelFound(store, d) THEN SettleFail(d, winnerWallet, "Duel not found")
           ELSE IF duel.status \notin {"ACTIVE", "PENDING_SETTLEMENT"}
                THEN SettleFail(d, winnerWallet, "Invalid duel status")
           ELSE IF ~isPlayer1Winner /\ ~isPlayer2Winner
                THEN SettleFail(d, winnerWallet, "Winner not part of this duel")
           ELSE /\ FreeSlot(s)
                /\ Len(auditLog) + Cardinality({r \in Slots : calls[r].pc = "commit"})
                       < MaxAudit
                /\ calls' = [calls EXCEPT ![s] = call]
                /\ ev' = [NoEv EXCEPT !.op = "settle", !.slot = s, !.duel = d,
                                      !.wallet = winnerWallet]
                /\ UNCHANGED <<store, auditLog>>
        /\ UNCHANGED <<now, ticks, houseFeePercent, escrowTimeoutMs, duels, sessionMap, dust,
                       pendingRecovery, failedRecovery, paid>>

(***************************************************************************)
(* settleDuel, second segment: the publication attempt has returned; the   *)
(* record goes to the audit log, the duel becomes PENDING_SETTLEMENT and   *)
(* the first winner payout is requested.                                   *)
(***************************************************************************)
SettleCommitted(s, onChainOk) ==
    LET c == calls[s]
        d == c.duel
        record == CommitmentRecord(c.commitment[1], onChainOk)
        log == AuditAppend(auditLog, record)
        c1 == [c EXCEPT !.audited = Len(log) > Len(auditLog),
                        !.xfersBeforeAudit = c.xfers]
        c2 == [IssueTransfer(c1, c.winner, c.W, duels[d].token) EXCEPT
                    !.pc = "pay", !.attempt = 1]
    IN  /\ c.kind = "settle" /\ c.pc = "commit"
        /\ auditLog' = log
        /\ duels' = [duels EXCEPT ![d] = [@ EXCEPT
                        !.status = "PENDING_SETTLEMENT",
                        !.winnerStealthId = generateStealthId(c.winner),
                        !.updatedAt = now]]
        /\ store' = setDuel(store, d, SETTLEMENT_TTL)
        /\ pendingRecovery' = pendingRecovery \cup {d}
        /\ calls' = [calls EXCEPT ![s] = c2]
        /\ ev' = [NoEv EXCEPT !.op = "settle", !.slot = s, !.duel = d,
                              !.published = IF onChainOk THEN "ok" ELSE "failed"]
        /\ UNCHANGED <<now, ticks, houseFeePercent, escrowTimeoutMs, sessionMap, dust,
                       failedRecovery, paid>>

(***************************************************************************)
(* settleDuel, the rest: the retry loop, the treasury payment or the dust  *)
(* counter, and the final write.                                           *)
(***************************************************************************)
\* a final write that records the winner's tx id only
SettleFinishWinnerOnly(s, c, treasuryTx, dustAdd, xfer) ==
    LET d == c.duel
        duel == duels[d]
    IN  /\ duels' = [duels EXCEPT ![d] = [@ EXCEPT
                        !.status = "SETTLED",
                        !.settlementTxSignatures = <<c.wxfer.tx>>,
                        !.updatedAt = now]]
        /\ store' = setDuel(store, d, 24 * 60 * 60 * 1000)
        /\ sessionMap' = unregister(unregister(sessionMap, duel.player1.stealthId),
                                    duel.player2.stealthId)
        /\ calls' = [calls EXCEPT ![s] = IdleCall]
        /\ ev' = [NoEv EXCEPT !.op = "settle", !.slot = s, !.duel = d,
                              !.done = TRUE, !.success = TRUE, !.http = 200,
                              !.W = c.W, !.H = c.H, !.wtx = c.wxfer.tx,
                              !.ttx = treasuryTx, !.dustAdd = dustAdd,
                              !.xfer = xfer, !.wxfer = c.wxfer, !.nfail = c.nfail,
                              !.xfers = c.xfers]

\* lines 470-495: SETTLED, tx ids, 24 h TTL, stealth ids dropped, result
SettleFinish(s, c, treasuryTx, dustAdd, xfer) ==
    LET d == c.duel
        duel == duels[d]
    IN  /\ duels' = [duels EXCEPT ![d] = [@ EXCEPT
                        !.status = "SETTLED",
                        !.settlementTxSignatures =
                            <<c.wxfer.tx>> \o
                                (IF treasuryTx # NoTx THEN <<treasuryTx>> ELSE <<>>),
                        !.updatedAt = now]]
        /\ store' = setDuel(store, d, 24 * 60 * 60 * 1000)
        /\ sessionMap' = unregister(unregister(sessionMap, duel.player1.stealthId),
                                    duel.player2.stealthId)
        /\ calls' = [calls EXCEPT ![s] = IdleCall]
        /\ ev' = [NoEv EXCEPT !.op = "settle", !.slot = s, !.duel = d,
                              !.done = TRUE, !.success = TRUE, !.http = 200,
                              !.W = c.W, !.H = c.H, !.wtx = c.wxfer.tx,
                              !.ttx = treasuryTx, !.dustAdd = dustAdd,
                              !.xfer = xfer, !.wxfer = c.wxfer, !.nfail = c.nfail,
                              !.xfers = c.xfers]

\* a fee below the minimum transfer is dropped instead of kept as dust
TreasuryOnly(s, c, xfer) ==
    LET minTransferForToken == TOKEN_MINIMUMS(duels[c.duel].token)
    IN  IF c.H >= minTransferForToken
        THEN /\ calls' = [calls EXCEPT ![s] =
                    [IssueTransfer(c, <<"treasury">>, c.H, duels[c.duel].token)
                        EXCEPT !.pc = "treasury"]]
             /\ ev' = [NoEv EXCEPT !.op = "settle", !.slot = s, !.duel = c.duel,
                                   !.xfer = xfer]
             /\ UNCHANGED <<duels, store, sessionMap, dust>>
        ELSE /\ dust' = dust
             /\ SettleFinish(s, c, NoTx, 0, xfer)

\* lines 450-468 up to the treasury call: transfer the fee or keep it as dust
TreasuryOrDust(s, c, xfer) ==
    LET minTransferForToken == TOKEN_MINIMUMS(duels[c.duel].token)
    IN  IF c.H >= minTransferForToken
        THEN /\ calls' = [calls EXCEPT ![s] =
                    [IssueTransfer(c, <<"treasury">>, c.H, duels[c.duel].token)
                        EXCEPT !.pc = "treasury"]]
             /\ ev' = [NoEv EXCEPT !.op = "settle", !.slot = s, !.duel = c.duel,
                                   !.xfer = xfer]
             /\ UNCHANGED <<duels, store, sessionMap, dust>>
        ELSE IF c.H > 0
        THEN /\ dust' = accumulateDust(dust, duels[c.duel].token, c.H)
             /\ SettleFinish(s, c, NoTx, c.H, xfer)
        ELSE /\ dust' = dust
             /\ SettleFinish(s, c, NoTx, 0, xfer)

\* an exhausted settle that still books the house fee as dust
SettleExhaustedKeepsFee(s, c, xfer) ==
    LET d == c.duel
    IN  /\ duels' = [duels EXCEPT ![d] = [@ EXCEPT !.status = "ACTIVE",
                                                   !.updatedAt = now]]
        /\ store' = setDuel(store, d, SETTLEMENT_TTL)
        /\ failedRecovery' = failedRecovery \cup {d}
        /\ dust' = accumulateDust(dust, duels[d].token, c.H)
        /\ calls' = [calls EXCEPT ![s] = IdleCall]
        /\ ev' = [NoEv EXCEPT !.op = "settle", !.slot = s, !.duel = d,
                              !.done = TRUE, !.http = 200,
                              !.error = "Failed to pay winner after 3 attempts",
                              !.xfer = xfer, !.nfail = c.nfail,
                              !.xfers = c.xfers]
        /\ UNCHANGED <<sessionMap, pendingRecovery>>

\* lines 437-445: every attempt failed
SettleExhausted(s, c, xfer) ==
    LET d == c.duel
    IN  /\ duels' = [duels EXCEPT ![d] = [@ EXCEPT !.status = "ACTIVE",
                                                   !.updatedAt = now]]
        /\ store' = setDuel(store, d, SETTLEMENT_TTL)
        /\ failedRecovery' = failedRecovery \cup {d}
        /\ calls' = [calls EXCEPT ![s] = IdleCall]
        /\ ev' = [NoEv EXCEPT !.op = "settle", !.slot = s, !.duel = d,
                              !.done = TRUE, !.http = 200,
                              !.error = "Failed to pay winner after 3 attempts",
                              !.xfer = xfer, !.nfail = c.nfail,
                              !.xfers = c.xfers]
        /\ UNCHANGED <<sessionMap, dust, pendingRecovery>>

\* one winner-payout attempt has been answered
SettlePayDone(s, ok) ==
    LET c == Noted(calls[s], ok)
        d == c.duel
        xfer == Answered(c, ok)
    IN  /\ c.kind = "settle" /\ c.pc = "pay"
        /\ IF ok
           THEN /\ paid' = [paid EXCEPT ![d].winner = @ + 1]
                /\ pendingRecovery' = pendingRecovery \ {d}
                /\ TreasuryOrDust(s, [c EXCEPT !.wxfer = xfer], xfer)
                /\ UNCHANGED failedRecovery
           ELSE IF c.attempt < MAX_RETRIES
           THEN /\ calls' = [calls EXCEPT ![s] = [c EXCEPT !.pc = "delay",
                                                  !.wakeAt = now + RETRY_DELAY_MS]]
                /\ ev' = [NoEv EXCEPT !.op = "settle", !.slot = s, !.duel = d,
                                      !.xfer = xfer]
                /\ UNCHANGED <<duels, store, sessionMap, dust, pendingRecovery,
                               failedRecovery, paid>>
           ELSE /\ SettleExhausted(s, c, xfer)
                /\ UNCHANGED paid
        /\ UNCHANGED <<now, ticks, houseFeePercent, escrowTimeoutMs, auditLog>>

\* the 2 s timer fired: next attempt
SettleRetry(s) ==
    LET c == calls[s]
    IN  /\ c.kind = "settle" /\ c.pc = "delay"
        /\ now >= c.wakeAt
        /\ calls' = [calls EXCEPT ![s] =
                [IssueTransfer(c, c.winner, c.W, duels[c.duel].token)
                    EXCEPT !.pc = "pay", !.attempt = c.attempt + 1]]
        /\ ev' = [NoEv EXCEPT !.op = "settle", !.slot = s, !.duel = c.duel]
        /\ UNCHANGED <<now, ticks, houseFeePercent, escrowTimeoutMs, duels, store, sessionMap,
                       dust, pendingRecovery, failedRecovery, auditLog, paid>>

\* the treasury transfer has been answered
SettleTreasuryDone(s, ok) ==
    LET c == Noted(calls[s], ok)
        xfer == Answered(c, ok)
        tx == xfer.tx
    IN  /\ c.kind = "settle" /\ c.pc = "treasury"
        /\ IF ok
           THEN /\ dust' = dust
                /\ SettleFinish(s, c, tx, 0, xfer)
           ELSE /\ dust' = accumulateDust(dust, duels[c.duel].token, c.H)
                /\ SettleFinish(s, c, NoTx, c.H, xfer)
        /\ UNCHANGED <<now, ticks, houseFeePercent, escrowTimeoutMs, pendingRecovery,
                       failedRecovery, auditLog, paid>>

(***************************************************************************)
(* refundDuel.                                                             *)
(***************************************************************************)
\* lines 550-561: REFUNDED, tx ids, 24 h TTL, stealth ids dropped, result
RefundFinish(s, d, sigs, nfail, nxfers, answers, xfer) ==
    LET duel == duels[d]
    IN  /\ duels' = [duels EXCEPT ![d] = [@ EXCEPT
                        !.status = "REFUNDED",
                        !.settlementTxSignatures = sigs,
                        !.updatedAt = now]]
        /\ store' = setDuel(getDuelStore(store, d), d, 24 * 60 * 60 * 1000)
        /\ sessionMap' = unregister(unregister(sessionMap, duel.player1.stealthId),
                                    duel.player2.stealthId)
        /\ ev' = [NoEv EXCEPT !.op = "refund", !.slot = s, !.duel = d,
                              !.done = TRUE, !.success = TRUE, !.http = 200,
                              !.txs = sigs, !.xfer = xfer, !.nfail = nfail,
                              !.xfers = nxfers, !.answers = answers]

\* player 2's turn with the after-fee amount in place of the stake
RefundPlayer2AfterFee(s, c, xfer) ==
    LET d == c.duel
        p2 == duels[d].player2
    IN  IF p2.stakeLocked /\ resolves(sessionMap, p2.stealthId)
        THEN /\ calls' = [calls EXCEPT ![s] =
                    [IssueTransfer(c, sessionMap[p2.stealthId],
                                   ActualDepositPerPlayer(p2.stakeAmount),
                                   duels[d].token) EXCEPT !.pc = "refund2"]]
             /\ ev' = [NoEv EXCEPT !.op = "refund", !.slot = s, !.duel = d,
                                   !.xfer = xfer]
             /\ UNCHANGED <<duels, store, sessionMap>>
        ELSE /\ calls' = [calls EXCEPT ![s] = IdleCall]
             /\ RefundFinish(s, d, c.sigs, c.nfail, c.xfers, c.answers, xfer)

\* lines 534-548: player 2's turn, then the final write
RefundPlayer2(s, c, xfer) ==
    LET d == c.duel
        p2 == duels[d].player2
    IN  IF p2.stakeLocked /\ resolves(sessionMap, p2.stealthId)
        THEN /\ calls' = [calls EXCEPT ![s] =
                    [IssueTransfer(c, sessionMap[p2.stealthId], p2.stakeAmount,
                                   duels[d].token) EXCEPT !.pc = "refund2"]]
             /\ ev' = [NoEv EXCEPT !.op = "refund", !.slot = s, !.duel = d,
                                   !.xfer = xfer]
             /\ UNCHANGED <<duels, store, sessionMap>>
        ELSE /\ calls' = [calls EXCEPT ![s] = IdleCall]
             /\ RefundFinish(s, d, c.sigs, c.nfail, c.xfers, c.answers, xfer)

RefundFail(d, msg) ==
    /\ ev' = [NoEv EXCEPT !.op = "refund", !.duel = d, !.done = TRUE,
                          !.error = msg, !.http = 200]
    /\ store' = getDuelStore(store, d)
    /\ UNCHANGED <<duels, sessionMap, calls>>

RefundStart(s, d) ==
    LET duel == duels[d]
        p1 == duel.player1
        c == [IdleCall EXCEPT !.kind = "refund", !.duel = d]
    IN  /\ IF ~getDuelFound(store, d) THEN RefundFail(d, "Duel not found")
           ELSE IF duel.status \in {"SETTLED", "REFUNDED"}
                THEN RefundFail(d, IF duel.status = "SETTLED"
                                   THEN "Duel already settled"
                                   ELSE "Duel already refunded")
           ELSE /\ FreeSlot(s)
                /\ IF p1.stakeLocked /\ resolves(sessionMap, p1.stealthId)
                   THEN /\ calls' = [calls EXCEPT ![s] =
                               [IssueTransfer(c, sessionMap[p1.stealthId],
                                              p1.stakeAmount, duel.token)
                                   EXCEPT !.pc = "refund1"]]
                        /\ ev' = [NoEv EXCEPT !.op = "refund", !.slot = s, !.duel = d]
                        /\ UNCHANGED <<duels, store, sessionMap>>
                   ELSE RefundPlayer2(s, c, NoXfer)
        /\ UNCHANGED <<now, ticks, houseFeePercent, escrowTimeoutMs, dust, pendingRecovery,
                       failedRecovery, auditLog, paid>>

\* refund.success && refund.txSignature: the tx id joins the list
RefundCollect(sigs, ok, tx) == IF ok /\ tx # NoTx THEN Append(sigs, tx) ELSE sigs

RefundP1Done(s, ok) ==
    LET c == Noted(calls[s], ok)
        xfer == Answered(c, ok)
        tx == xfer.tx
    IN  /\ c.kind = "refund" /\ c.pc = "refund1"
        /\ paid' = [paid EXCEPT ![c.duel].refund = @ + (IF ok THEN 1 ELSE 0)]
        /\ RefundPlayer2(s, [c EXCEPT !.sigs = RefundCollect(c.sigs, ok, tx)], xfer)
        /\ UNCHANGED <<now, ticks, houseFeePercent, escrowTimeoutMs, dust, pendingRecovery,
                       failedRecovery, auditLog>>

RefundP2Done(s, ok) ==
    LET c == Noted(calls[s], ok)
        xfer == Answered(c, ok)
        tx == xfer.tx
    IN  /\ c.kind = "refund" /\ c.pc = "refund2"
        /\ paid' = [paid EXCEPT ![c.duel].refund = @ + (IF ok THEN 1 ELSE 0)]
        /\ calls' = [calls EXCEPT ![s] = IdleCall]
        /\ RefundFinish(s, c.duel, RefundCollect(c.sigs, ok, tx), c.nfail, c.xfers,
                        c.answers, xfer)
        /\ UNCHANGED <<now, ticks, houseFeePercent, escrowTimeoutMs, dust, pendingRecovery,
                       failedRecovery, auditLog>>

(***************************************************************************)
(* emergencyRefund (POST /recovery/emergency-refund: both wallets given).  *)
(***************************************************************************)
EmergencyStart(s, d, player1Wallet, player2Wallet, stakePerPlayerLamports, token) ==
    LET actualPerPlayer == ActualDepositPerPlayer(stakePerPlayerLamports)
        c == [IdleCall EXCEPT !.kind = "emergency", !.pc = "emergency1",
                              !.duel = d, !.w1 = player1Wallet,
                              !.w2 = player2Wallet, !.stake = actualPerPlayer,
                              !.stakePerPlayerLamports = stakePerPlayerLamports,
                              !.token = token]
    IN  /\ FreeSlot(s)
        /\ calls' = [calls EXCEPT ![s] =
                        IssueTransfer(c, player1Wallet, actualPerPlayer, token)]
        /\ ev' = [NoEv EXCEPT !.op = "emergency", !.slot = s, !.duel = d]
        /\ UNCHANGED <<now, ticks, houseFeePercent, escrowTimeoutMs, duels, store, sessionMap,
                       dust, pendingRecovery, failedRecovery, auditLog, paid>>

EmergencyP1Done(s, ok) ==
    LET c == Noted(calls[s], ok)
        xfer == Answered(c, ok)
        tx == xfer.tx
    IN  /\ c.kind = "emergency" /\ c.pc = "emergency1"
        /\ calls' = [calls EXCEPT ![s] =
                [IssueTransfer([c EXCEPT !.ok1 = ok, !.sigs = RefundCollect(c.sigs, ok, tx)],
                               c.w2, c.stake, c.token)
                    EXCEPT !.pc = "emergency2"]]
        /\ ev' = [NoEv EXCEPT !.op = "emergency", !.slot = s, !.duel = c.duel,
                              !.xfer = xfer]
        /\ UNCHANGED <<now, ticks, houseFeePercent, escrowTimeoutMs, duels, store, sessionMap,
                       dust, pendingRecovery, failedRecovery, auditLog, paid>>

EmergencyP2Done(s, ok) ==
    LET c == Noted(calls[s], ok)
        d == c.duel
        xfer == Answered(c, ok)
        tx == xfer.tx
        allSuccess == c.ok1 /\ ok
    IN  /\ c.kind = "emergency" /\ c.pc = "emergency2"
        /\ IF allSuccess
           THEN /\ failedRecovery' = failedRecovery \ {d}
                /\ pendingRecovery' = pendingRecovery \ {d}
                /\ IF getDuelFound(store, d)
                   THEN /\ duels' = [duels EXCEPT ![d] = [@ EXCEPT
                                        !.status = "REFUNDED", !.updatedAt = now]]
                        /\ store' = setDuel(store, d, 24 * 60 * 60 * 1000)
                   ELSE /\ duels' = duels
                        /\ store' = getDuelStore(store, d)
           ELSE UNCHANGED <<failedRecovery, pendingRecovery, duels, store>>
        /\ calls' = [calls EXCEPT ![s] = IdleCall]
        /\ ev' = [NoEv EXCEPT !.op = "emergency", !.slot = s, !.duel = d,
                              !.done = TRUE, !.success = allSuccess,
                              !.http = IF allSuccess THEN 200 ELSE 500,
                              !.error = IF allSuccess THEN ""
                                        ELSE "Some refunds failed - check individual results",
                              !.txs = RefundCollect(c.sigs, ok, tx), !.xfer = xfer,
                              !.nfail = c.nfail, !.xfers = c.xfers,
                              !.answers = c.answers]
        /\ UNCHANGED <<now, ticks, houseFeePercent, escrowTimeoutMs, sessionMap, dust,
                       auditLog, paid>>

(***************************************************************************)
(* sweepDustToTreasury.                                                    *)
(***************************************************************************)
SweepStart(s, token) ==
    LET dustAmount == dust[token]
        c == [IdleCall EXCEPT !.kind = "sweep", !.pc = "sweep", !.token = token,
                              !.stake = dustAmount]
    IN  /\ IF dustAmount < SHADOWWIRE_MIN_TRANSFER
           THEN /\ ev' = [NoEv EXCEPT !.op = "sweep", !.done = TRUE, !.http = 400,
                                      !.error = "below minimum", !.W = dustAmount,
                                      !.token = token]
                /\ UNCHANGED calls
           ELSE /\ FreeSlot(s)
                /\ calls' = [calls EXCEPT ![s] =
                                IssueTransfer(c, <<"treasury">>, dustAmount, token)]
                /\ ev' = [NoEv EXCEPT !.op = "sweep", !.slot = s, !.token = token]
        /\ UNCHANGED <<now, ticks, houseFeePercent, escrowTimeoutMs, duels, store, sessionMap,
                       dust, pendingRecovery, failedRecovery, auditLog, paid>>

SweepDone(s, ok) ==
    LET c == calls[s]
        xfer == Answered(c, ok)
        tx == xfer.tx
    IN  /\ c.kind = "sweep" /\ c.pc = "sweep"
        /\ dust' = IF ok THEN resetDust(dust, c.token) ELSE dust
        /\ calls' = [calls EXCEPT ![s] = IdleCall]
        /\ ev' = [NoEv EXCEPT !.op = "sweep", !.slot = s, !.done = TRUE,
                              !.success = ok, !.http = IF ok THEN 200 ELSE 400,
                              !.error = IF ok THEN "" ELSE "transfer failed",
                              !.W = c.stake, !.wtx = tx,
                              !.xfer = xfer, !.token = c.token]
        /\ UNCHANGED <<now, ticks, houseFeePercent, escrowTimeoutMs, duels, store, sessionMap,
                       pendingRecovery, failedRecovery, auditLog, paid>>

(***************************************************************************)
(* Requests the environment sends, and the specifications.                 *)
(***************************************************************************)
WalletA == <<"A">>
WalletB == <<"B">>
WalletC == <<"C">>

RawProof(t) == [json |-> FALSE, key |-> "", value |-> "", text |-> t]
JsonProof(k, v) == [json |-> TRUE, key |-> k, value |-> v, text |-> "{json}"]

\* ESCROW_TIMEOUT_SECONDS = 1800, the default
DefaultTimeoutMs == 1800 * 1000

\* no handler is suspended at an await
Quiet == \A s \in Slots : calls[s].kind = "idle"

\* Lifecycle under concurrency: one pair of players, SOL, stake 0.11
\* (0.10 is below the minimum), house fee 2 %, default timeout.  Requests
\* arrive at any time, also while other handlers are suspended.
Init == InitWith({2}, {DefaultTimeoutMs})

Next ==
    \/ UNCHANGED gate /\ \E d \in LifecycleDuelIds, st \in {10, 11} :
            CreateDuel(d, WalletA, WalletB, st, "SOL")
    \/ UNCHANGED gate /\ \E d \in LifecycleDuelIds, w \in {WalletA, WalletB, WalletC} :
            LockStakeWithProof(d, w, RawProof("tx_p"))
    \/ UNCHANGED gate /\ \E s \in Slots, d \in LifecycleDuelIds, w \in {WalletA, WalletB, WalletC} :
            SettleStart(s, d, w, "sig")
    \/ UNCHANGED gate /\ \E s \in Slots, ok \in BOOLEAN : SettleCommitted(s, ok)
    \/ UNCHANGED gate /\ \E s \in Slots, ok \in BOOLEAN : SettlePayDone(s, ok)
    \/ UNCHANGED gate /\ \E s \in Slots : SettleRetry(s)
    \/ UNCHANGED gate /\ \E s \in Slots, d \in LifecycleDuelIds : RefundStart(s, d)
    \/ UNCHANGED gate /\ \E s \in Slots, ok \in BOOLEAN : RefundP1Done(s, ok)
    \/ UNCHANGED gate /\ \E s \in Slots, ok \in BOOLEAN : RefundP2Done(s, ok)
    \/ UNCHANGED gate /\ TimerPending /\ Tick(RETRY_DELAY_MS)

Spec == Init /\ [][Next]_vars

\* Recovery: the operator's emergency refund next to the ordinary calls,
\* one request at a time; the operator names 0.11 SOL in lamports or 5.50
\* USD1 in its smallest unit.
EmergencyOffers == {<<"SOL", 110000000>>, <<"USD1", 5500000>>}

InitRecovery == InitWith({2}, {DefaultTimeoutMs})

NextRecovery ==
    \/ UNCHANGED gate /\ Quiet /\ \E d \in LifecycleDuelIds : CreateDuel(d, WalletA, WalletB, 11, "SOL")
    \/ UNCHANGED gate /\ Quiet /\ \E d \in LifecycleDuelIds, w \in {WalletA, WalletB} :
            LockStakeWithProof(d, w, RawProof("tx_p"))
    \/ UNCHANGED gate /\ Quiet /\ \E s \in Slots, d \in LifecycleDuelIds, w \in {WalletA, WalletB} :
            SettleStart(s, d, w, "sig")
    \/ UNCHANGED gate /\ \E s \in Slots, ok \in BOOLEAN : SettleCommitted(s, ok)
    \/ UNCHANGED gate /\ \E s \in Slots, ok \in BOOLEAN : SettlePayDone(s, ok)
    \/ UNCHANGED gate /\ \E s \in Slots : SettleRetry(s)
    \/ UNCHANGED gate /\ Quiet /\ \E s \in Slots, d \in LifecycleDuelIds : RefundStart(s, d)
    \/ UNCHANGED gate /\ \E s \in Slots, ok \in BOOLEAN : RefundP1Done(s, ok)
    \/ UNCHANGED gate /\ \E s \in Slots, ok \in BOOLEAN : RefundP2Done(s, ok)
    \/ UNCHANGED gate /\ Quiet /\ \E s \in Slots, d \in LifecycleDuelIds, o \in EmergencyOffers :
            EmergencyStart(s, d, WalletA, WalletB, o[2], o[1])
    \/ UNCHANGED gate /\ \E s \in Slots, ok \in BOOLEAN : EmergencyP1Done(s, ok)
    \/ UNCHANGED gate /\ \E s \in Slots, ok \in BOOLEAN : EmergencyP2Done(s, ok)
    \/ UNCHANGED gate /\ TimerPending /\ Tick(RETRY_DELAY_MS)

SpecRecovery == InitRecovery /\ [][NextRecovery]_vars

\* Payout: house fee 0 %, 2 % or 10 %; SOL stakes 0.10, 0.11, 0.53 and 1.00,
\* USD1 stakes 5.49, 5.50 and 300.00; one request at a time.
StakeOffers ==
    {<<"SOL", 10>>, <<"SOL", 11>>, <<"SOL", 53>>, <<"SOL", 100>>,
     <<"USD1", 549>>, <<"USD1", 550>>, <<"USD1", 30000>>}

InitPayout == InitWith({0, 2, 10}, {DefaultTimeoutMs})

NextPayout ==
    \/ UNCHANGED gate /\ Quiet /\ \E d \in LifecycleDuelIds, o \in StakeOffers :
            CreateDuel(d, WalletA, WalletB, o[2], o[1])
    \/ UNCHANGED gate /\ Quiet /\ \E d \in LifecycleDuelIds, w \in {WalletA, WalletB} :
            LockStakeWithProof(d, w, RawProof("tx_p"))
    \/ UNCHANGED gate /\ Quiet /\ \E s \in Slots, d \in LifecycleDuelIds, w \in {WalletA, WalletB} :
            SettleStart(s, d, w, "sig")
    \/ UNCHANGED gate /\ \E s \in Slots, ok \in BOOLEAN : SettleCommitted(s, ok)
    \/ UNCHANGED gate /\ \E s \in Slots, ok \in BOOLEAN : SettlePayDone(s, ok)
    \/ UNCHANGED gate /\ \E s \in Slots : SettleRetry(s)
    \/ UNCHANGED gate /\ \E s \in Slots, ok \in BOOLEAN : SettleTreasuryDone(s, ok)
    \/ UNCHANGED gate /\ Quiet /\ \E s \in Slots, t \in Tokens : SweepStart(s, t)
    \/ UNCHANGED gate /\ \E s \in Slots, ok \in BOOLEAN : SweepDone(s, ok)
    \/ UNCHANGED gate /\ TimerPending /\ Tick(RETRY_DELAY_MS)

SpecPayout == InitPayout /\ [][NextPayout]_vars

\* Clock: time passes between requests, up to and beyond the duel's
\* expires_at; the reaper runs; one request at a time.
InitClock == InitWith({2}, {DefaultTimeoutMs})

NextClock ==
    \/ UNCHANGED gate /\ Quiet /\ \E d \in LifecycleDuelIds : CreateDuel(d, WalletA, WalletB, 11, "SOL")
    \/ UNCHANGED gate /\ Quiet /\ \E d \in LifecycleDuelIds, w \in {WalletA, WalletB} :
            LockStakeWithProof(d, w, RawProof("tx_p"))
    \/ UNCHANGED gate /\ Quiet /\ \E s \in Slots, d \in LifecycleDuelIds, w \in {WalletA, WalletB} :
            SettleStart(s, d, w, "sig")
    \/ UNCHANGED gate /\ \E s \in Slots, ok \in BOOLEAN : SettleCommitted(s, ok)
    \/ UNCHANGED gate /\ \E s \in Slots, ok \in BOOLEAN : SettlePayDone(s, ok)
    \/ UNCHANGED gate /\ \E s \in Slots : SettleRetry(s)
    \/ UNCHANGED gate /\ Quiet /\ \E s \in Slots, d \in LifecycleDuelIds : RefundStart(s, d)
    \/ UNCHANGED gate /\ \E s \in Slots, ok \in BOOLEAN : RefundP1Done(s, ok)
    \/ UNCHANGED gate /\ \E s \in Slots, ok \in BOOLEAN : RefundP2Done(s, ok)
    \/ UNCHANGED gate /\ \E dt \in {1, RETRY_DELAY_MS, escrowTimeoutMs} : Tick(dt)
    \/ UNCHANGED gate /\ Cleanup

SpecClock == InitClock /\ [][NextClock]_vars

\* Shared wallets: two duels, the second between the same players or between
\* one of them and a third; one request at a time.
WalletPairs == {<<WalletA, WalletB>>, <<WalletA, WalletC>>}

InitShared == InitWith({2}, {DefaultTimeoutMs})

NextShared ==
    \/ UNCHANGED gate /\ Quiet /\ \E d \in DuelIds, pr \in WalletPairs :
            CreateDuel(d, pr[1], pr[2], 11, "SOL")
    \/ UNCHANGED gate /\ Quiet /\ \E d \in DuelIds, w \in {WalletA, WalletB, WalletC} :
            LockStakeWithProof(d, w, RawProof("tx_p"))
    \/ UNCHANGED gate /\ Quiet /\ \E s \in Slots, d \in DuelIds, w \in {WalletA, WalletB, WalletC} :
            SettleStart(s, d, w, "sig")
    \/ UNCHANGED gate /\ \E s \in Slots, ok \in BOOLEAN : SettleCommitted(s, ok)
    \/ UNCHANGED gate /\ \E s \in Slots, ok \in BOOLEAN : SettlePayDone(s, ok)
    \/ UNCHANGED gate /\ \E s \in Slots : SettleRetry(s)
    \/ UNCHANGED gate /\ Quiet /\ \E s \in Slots, d \in DuelIds : RefundStart(s, d)
    \/ UNCHANGED gate /\ \E s \in Slots, ok \in BOOLEAN : RefundP1Done(s, ok)
    \/ UNCHANGED gate /\ \E s \in Slots, ok \in BOOLEAN : RefundP2Done(s, ok)
    \/ UNCHANGED gate /\ TimerPending /\ Tick(RETRY_DELAY_MS)

SpecShared == InitShared /\ [][NextShared]_vars

\* Return: the payout requests, one at a time, where every backend call is
\* answered and every retry timer fires; a settle call is sent only while
\* the clock can still serve all its retry delays.
InitReturn == InitWith({0, 2, 10}, {DefaultTimeoutMs})

NextReturn ==
    \/ UNCHANGED gate /\ Quiet /\ \E d \in LifecycleDuelIds, o \in StakeOffers :
            CreateDuel(d, WalletA, WalletB, o[2], o[1])
    \/ UNCHANGED gate /\ Quiet /\ \E d \in LifecycleDuelIds, w \in {WalletA, WalletB} :
            LockStakeWithProof(d, w, RawProof("tx_p"))
    \/ UNCHANGED gate /\ Quiet /\ ticks + (MAX_RETRIES - 1) <= MaxTicks
            /\ \E s \in Slots, d \in LifecycleDuelIds, w \in {WalletA, WalletB} :
                    SettleStart(s, d, w, "sig")
    \/ UNCHANGED gate /\ \E s \in Slots, ok \in BOOLEAN : SettleCommitted(s, ok)
    \/ UNCHANGED gate /\ \E s \in Slots, ok \in BOOLEAN : SettlePayDone(s, ok)
    \/ UNCHANGED gate /\ \E s \in Slots : SettleRetry(s)
    \/ UNCHANGED gate /\ \E s \in Slots, ok \in BOOLEAN : SettleTreasuryDone(s, ok)
    \/ UNCHANGED gate /\ TimerPending /\ Tick(RETRY_DELAY_MS)

\* the ledger and the transfer backend answer every call
BackendAnswers ==
    UNCHANGED gate /\ \E s \in Slots, ok \in BOOLEAN :
        SettleCommitted(s, ok) \/ SettlePayDone(s, ok) \/ SettleTreasuryDone(s, ok)

\* setTimeout: the delay passes and the handler resumes
TimerFires ==
    UNCHANGED gate /\ ((TimerPending /\ Tick(RETRY_DELAY_MS)) \/ \E s \in Slots : SettleRetry(s))

SpecReturn ==
    InitReturn /\ [][NextReturn]_vars /\ WF_vars(BackendAnswers) /\ WF_vars(TimerFires)

\* Dust: two duels of 0.53 SOL at a house fee of 10 %, whose fee is below
\* the treasury minimum and goes to dust; duels are set up one request at a
\* time, settle and sweep calls arrive at any time, also while others wait.
InitDust == InitWith({10}, {DefaultTimeoutMs})

NextDust ==
    \/ UNCHANGED gate /\ Quiet /\ \E d \in DuelIds : CreateDuel(d, WalletA, WalletB, 53, "SOL")
    \/ UNCHANGED gate /\ Quiet /\ \E d \in DuelIds, w \in {WalletA, WalletB} :
            LockStakeWithProof(d, w, RawProof("tx_p"))
    \/ UNCHANGED gate /\ \E s \in Slots, d \in DuelIds : SettleStart(s, d, WalletA, "sig")
    \/ UNCHANGED gate /\ \E s \in Slots, ok \in BOOLEAN : SettleCommitted(s, ok)
    \/ UNCHANGED gate /\ \E s \in Slots, ok \in BOOLEAN : SettlePayDone(s, ok)
    \/ UNCHANGED gate /\ \E s \in Slots : SettleRetry(s)
    \/ UNCHANGED gate /\ \E s \in Slots, t \in Tokens : SweepStart(s, t)
    \/ UNCHANGED gate /\ \E s \in Slots, ok \in BOOLEAN : SweepDone(s, ok)
    \/ UNCHANGED gate /\ TimerPending /\ Tick(RETRY_DELAY_MS)

SpecDust == InitDust /\ [][NextDust]_vars

\* GET /:duelId: the record, or 404 when the store has none
GetDuel(d) ==
    LET found == getDuelFound(store, d)
    IN  /\ ev' = [NoEv EXCEPT !.op = "get", !.duel = d, !.done = TRUE,
                              !.success = found,
                              !.http = IF found THEN 200 ELSE 404,
                              !.error = IF found THEN "" ELSE "Duel not found"]
        /\ store' = getDuelStore(store, d)
        /\ UNCHANGED <<now, ticks, houseFeePercent, escrowTimeoutMs, duels, sessionMap,
                       dust, pendingRecovery, failedRecovery, auditLog, calls, paid>>

\* Retention: time passes by a retry delay, by a millisecond, and by the
\* 24 h of the settlement TTL less a millisecond, between requests that
\* include reads of the record; the reaper runs; one request at a time.
InitRetention == InitWith({2}, {DefaultTimeoutMs})

NextRetention ==
    \/ UNCHANGED gate /\ Quiet /\ \E d \in LifecycleDuelIds : CreateDuel(d, WalletA, WalletB, 11, "SOL")
    \/ UNCHANGED gate /\ Quiet /\ \E d \in LifecycleDuelIds, w \in {WalletA, WalletB} :
            LockStakeWithProof(d, w, RawProof("tx_p"))
    \/ UNCHANGED gate /\ Quiet /\ \E s \in Slots, d \in LifecycleDuelIds :
            SettleStart(s, d, WalletA, "sig")
    \/ UNCHANGED gate /\ \E s \in Slots, ok \in BOOLEAN : SettleCommitted(s, ok)
    \/ UNCHANGED gate /\ \E s \in Slots, ok \in BOOLEAN : SettlePayDone(s, ok)
    \/ UNCHANGED gate /\ \E s \in Slots : SettleRetry(s)
    \/ UNCHANGED gate /\ Quiet /\ \E s \in Slots, d \in LifecycleDuelIds : RefundStart(s, d)
    \/ UNCHANGED gate /\ \E s \in Slots, ok \in BOOLEAN : RefundP1Done(s, ok)
    \/ UNCHANGED gate /\ \E s \in Slots, ok \in BOOLEAN : RefundP2Done(s, ok)
    \/ UNCHANGED gate /\ \E d \in LifecycleDuelIds : GetDuel(d)
    \/ UNCHANGED gate /\ \E dt \in {1, RETRY_DELAY_MS, SETTLEMENT_TTL - 1} : Tick(dt)
    \/ UNCHANGED gate /\ Cleanup

SpecRetention == InitRetention /\ [][NextRetention]_vars

(***************************************************************************)
(* The server: CORS preflight, the development mount /duel, and under /api *)
(* the rate limiter, then requireInternalAuth, then the duel router.       *)
(***************************************************************************)
\* config.INTERNAL_API_KEY; the empty header value stands for an absent header
INTERNAL_API_KEY == "configured-key"

Headers == {"", "other-key", INTERNAL_API_KEY}

\* a limiter that never starts a new window
rateLimitEntrySticky(m, key) ==
    IF ~m[key].has
    THEN [has |-> TRUE, count |-> 1, resetAt |-> now + RATE_LIMIT_WINDOW_MS]
    ELSE [m[key] EXCEPT !.count = @ + 1]

\* rateLimit: the client's entry once this request is counted
rateLimitEntry(m, key) ==
    IF ~m[key].has \/ now > m[key].resetAt
    THEN [has |-> TRUE, count |-> 1, resetAt |-> now + RATE_LIMIT_WINDOW_MS]
    ELSE [m[key] EXCEPT !.count = @ + 1]

\* entry.count > options.max
rateLimited(entry) == entry.count > RATE_LIMIT_MAX

\* Math.ceil((entry.resetAt - now) / 1000)
retryAfter(entry) == (entry.resetAt - now + 999) \div 1000

\* an auth check that takes any header that is present
requireInternalAuthPresent(providedKey) ==
    IF providedKey = "" THEN 401 ELSE 0

\* requireInternalAuth: the status it answers with, 0 when it calls next()
requireInternalAuth(providedKey) ==
    IF providedKey = "" THEN 401
    ELSE IF providedKey # INTERNAL_API_KEY THEN 403
    ELSE 0

\* a response sent by the server before any duel handler ran
Respond(status, msg, seconds) ==
    /\ ev' = [NoEv EXCEPT !.op = "gate", !.done = TRUE, !.http = status,
                          !.error = msg, !.retryAfter = seconds]
    /\ UNCHANGED engine

\* GET /service-info: reads configuration only
ServiceInfo ==
    /\ ev' = [NoEv EXCEPT !.op = "service-info", !.done = TRUE, !.success = TRUE,
                          !.http = 200]
    /\ UNCHANGED engine

\* the duel router: the handler the path selects
DuelRouter(route) ==
    \/ route = "service-info" /\ ServiceInfo
    \/ route = "create" /\ \E d \in LifecycleDuelIds :
            CreateDuel(d, WalletA, WalletB, 11, "SOL")
    \/ route = "lock-stake" /\ \E d \in LifecycleDuelIds, w \in {WalletA, WalletB} :
            LockStakeWithProof(d, w, RawProof("tx_p"))
    \/ route = "refund" /\ \E s \in Slots, d \in LifecycleDuelIds : RefundStart(s, d)

\* one request through createServer's middleware chain
HttpRequest(client, method, mount, header, route) ==
    LET entry == rateLimitEntry(rateLimitMap, client)
        auth == requireInternalAuth(header)
    IN  /\ request' = [mount |-> mount, method |-> method, header |-> header,
                       client |-> client]
        /\ isDevelopment' = isDevelopment
        /\ stealthCheck' = stealthCheck
        /\ IF method = "OPTIONS"
           THEN /\ rateLimitMap' = rateLimitMap
                /\ Respond(204, "", 0)
           ELSE IF mount = "/duel"
           THEN /\ rateLimitMap' = rateLimitMap
                /\ IF isDevelopment THEN DuelRouter(route)
                                    ELSE Respond(404, "Not found", 0)
           ELSE /\ rateLimitMap[client].count < RATE_LIMIT_MAX + MaxOverLimit
                /\ rateLimitMap' = [rateLimitMap EXCEPT ![client] = entry]
                /\ IF rateLimited(entry)
                   THEN Respond(429, "Too many requests", retryAfter(entry))
                   ELSE IF auth = 401
                   THEN Respond(401, "Missing X-Internal-Secret header", 0)
                   ELSE IF auth = 403
                   THEN Respond(403, "Invalid internal API key", 0)
                   ELSE DuelRouter(route)

\* a backend answer or a timer: no request is being served
Background == request' = NoRequest /\ UNCHANGED <<isDevelopment, rateLimitMap, stealthCheck>>

\* Gateway: one client's requests with every header, on both mounts, in and
\* out of development mode; one request at a time.
InitGateway ==
    /\ now = 0
    /\ ticks = 0
    /\ houseFeePercent = 2
    /\ escrowTimeoutMs = DefaultTimeoutMs
    /\ duels = [d \in DuelIds |-> NoDuel]
    /\ store = [d \in DuelIds |-> NoItem]
    /\ sessionMap = <<>>
    /\ dust = [t \in Tokens |-> 0]
    /\ pendingRecovery = {}
    /\ failedRecovery = {}
    /\ auditLog = <<>>
    /\ calls = [s \in Slots |-> IdleCall]
    /\ paid = [d \in DuelIds |-> NoPaid]
    /\ ev = NoEv
    /\ isDevelopment \in BOOLEAN
    /\ rateLimitMap = [c \in Clients |-> NoEntry]
    /\ request = NoRequest
    /\ stealthCheck = NoCheck

NextGateway ==
    \/ Quiet /\ \E method \in {"POST", "OPTIONS"}, mount \in {"/duel", "/api/v1/duel"},
                   header \in Headers, route \in {"create", "lock-stake", "refund"} :
            HttpRequest("ip1", method, mount, header, route)
    \/ Background /\ \E s \in Slots, ok \in BOOLEAN : RefundP1Done(s, ok)
    \/ Background /\ \E s \in Slots, ok \in BOOLEAN : RefundP2Done(s, ok)

SpecGateway == InitGateway /\ [][NextGateway]_vars

\* Rate: two clients with the configured key call a route that changes
\* nothing, while time passes within and beyond the window.
NextRate ==
    \/ \E client \in Clients :
            HttpRequest(client, "GET", "/api/v1/duel", INTERNAL_API_KEY, "service-info")
    \/ Background /\ \E dt \in {1, RATE_LIMIT_WINDOW_MS} : Tick(dt)

SpecRate == InitGateway /\ [][NextRate]_vars

(***************************************************************************)
(* stealth.ts called directly: generateStealthId on one wallet string, then*)
(* verifyStealthId of another wallet string against the id.                *)
(***************************************************************************)
\* the characters of the wallet strings tried: two letters and whitespace
Chars == {"A", "B", " "}

WalletStrings == UNION {[1..n -> Chars] : n \in 0..MaxLen}

GenerateStealthId ==
    /\ stealthCheck.pc = "input"
    /\ stealthCheck' = [stealthCheck EXCEPT
                            !.id = generateStealthId(stealthCheck.other),
                            !.pc = "generated"]
    /\ ev' = NoEv
    /\ UNCHANGED <<engine, isDevelopment, rateLimitMap, request>>

VerifyStealthId ==
    /\ stealthCheck.pc = "generated"
    /\ stealthCheck' = [stealthCheck EXCEPT
                            !.verified = verifyStealthId(stealthCheck.wallet,
                                                         stealthCheck.id),
                            !.pc = "verified"]
    /\ ev' = NoEv
    /\ UNCHANGED <<engine, isDevelopment, rateLimitMap, request>>

\* Stealth: every pair of wallet strings of up to MaxLen characters
InitStealth ==
    /\ now = 0
    /\ ticks = 0
    /\ houseFeePercent = 2
    /\ escrowTimeoutMs = DefaultTimeoutMs
    /\ duels = [d \in DuelIds |-> NoDuel]
    /\ store = [d \in DuelIds |-> NoItem]
    /\ sessionMap = <<>>
    /\ dust = [t \in Tokens |-> 0]
    /\ pendingRecovery = {}
    /\ failedRecovery = {}
    /\ auditLog = <<>>
    /\ calls = [s \in Slots |-> IdleCall]
    /\ paid = [d \in DuelIds |-> NoPaid]
    /\ ev = NoEv
    /\ isDevelopment = FALSE
    /\ rateLimitMap = [c \in Clients |-> NoEntry]
    /\ request = NoRequest
    /\ \E w \in WalletStrings, o \in WalletStrings :
            stealthCheck = [NoCheck EXCEPT !.pc = "input", !.wallet = w, !.other = o]

NextStealth ==
    \/ GenerateStealthId
    \/ VerifyStealthId

SpecStealth == InitStealth /\ [][NextStealth]_vars

(***************************************************************************)
(* Properties.                                                             *)
(***************************************************************************)

\* C1: every change of a duel's status is one of: (new) -> PENDING_STAKES,
\* PENDING_STAKES -> ACTIVE, ACTIVE -> PENDING_SETTLEMENT,
\* PENDING_SETTLEMENT -> SETTLED, PENDING_SETTLEMENT -> ACTIVE,
\* PENDING_STAKES -> REFUNDED, ACTIVE -> REFUNDED, whatever the interleaving
\* of create, lock, settle and refund calls.
C1_OnlyListedTransitions ==
    [][\A d \in DuelIds :
          duels'[d].status # duels[d].status =>
              <<duels[d].status, duels'[d].status>> \in
                  {<<"NONE", "PENDING_STAKES">>,
                   <<"PENDING_STAKES", "ACTIVE">>,
                   <<"ACTIVE", "PENDING_SETTLEMENT">>,
                   <<"PENDING_SETTLEMENT", "SETTLED">>,
                   <<"PENDING_SETTLEMENT", "ACTIVE">>,
                   <<"PENDING_STAKES", "REFUNDED">>,
                   <<"ACTIVE", "REFUNDED">>}]_vars

\* C2: for every duel, at most one winner-payout transfer ever succeeds,
\* however many settle calls are made and however they overlap.
C2_AtMostOneWinnerPayout == \A d \in DuelIds : paid[d].winner <= 1

\* C3: a settle call that has requested any escrow transfer has, before its
\* first request, built its commitment, had the publication attempt answered
\* and appended the commitment record to the audit log.
C3_AuditBeforePayout ==
    \A s \in Slots :
        (calls[s].kind = "settle" /\ calls[s].xfers > 0) =>
            /\ calls[s].audited
            /\ calls[s].xfersBeforeAudit = 0
            /\ \E i \in 1..Len(auditLog) :
                    /\ auditLog[i].commitment = calls[s].commitment[1]
                    /\ auditLog[i].commitmentHash = hashCommitment(calls[s].commitment[1])

\* C3, its case: the publication failed, the record is in the audit log all
\* the same, and the first winner payout has been requested.
C3_Witness ==
    \E s \in Slots :
        /\ calls[s].kind = "settle" /\ calls[s].pc = "pay" /\ calls[s].attempt = 1
        /\ calls[s].req.to = calls[s].winner
        /\ \E i \in 1..Len(auditLog) :
                /\ auditLog[i].commitment = calls[s].commitment[1]
                /\ ~auditLog[i].onChainSuccess

\* C4: a duel that is SETTLED or REFUNDED keeps that status under every
\* later lock, settle, refund and emergency-refund call.
C4_TerminalStatusesStay ==
    [][\A d \in DuelIds :
          duels[d].status \in {"SETTLED", "REFUNDED"} =>
              duels'[d].status = duels[d].status]_vars

\* C5: while a settle call on duel d is between reading d and returning, no
\* other lock, settle, refund or emergency-refund call reads or changes d.
C5_SettleIsCriticalSection ==
    \A s \in Slots :
        calls[s].kind = "settle" =>
            ~(/\ ev.op \in {"lock", "settle", "refund", "emergency"}
              /\ ev.duel = calls[s].duel
              /\ ev.slot # s
              /\ ev.error # "Duel not found")

\* C6: a settle call whose three winner-payout attempts all failed returns
\* success = false with an error naming the three attempts, and at that moment
\* the duel is ACTIVE, in failed_recovery and not in pending_recovery.
C6_ExhaustedSettleOutcome ==
    (ev.op = "settle" /\ ev.done /\ ~ev.success /\ ev.nfail = MAX_RETRIES) =>
        /\ ev.error = "Failed to pay winner after 3 attempts"
        /\ duels[ev.duel].status = "ACTIVE"
        /\ ev.duel \in failedRecovery
        /\ ev.duel \notin pendingRecovery

\* C7: when a settle call returns with its retries exhausted, or a refund call
\* returns after a transfer to a locked participant failed, the duel is in
\* pending_recovery or in failed_recovery.
C7_FailedPayoutsAreRecoverable ==
    (/\ ev.done
     /\ ev.nfail > 0
     /\ \/ ev.op = "settle" /\ ~ev.success
        \/ ev.op = "refund") =>
        ev.duel \in pendingRecovery \cup failedRecovery

\* C8: a settle call that returns success, with pot P, winner payout W and
\* house fee H, W + H = P, has transferred exactly W to the winner; and when
\* H > 0 exactly one of these holds: a treasury transfer of H succeeded and its
\* tx id is among the duel's settlement tx ids, or the token's dust counter
\* grew by exactly H in the call's last step.
C8_FeeToTreasuryOrDust ==
    [][(ev'.op = "settle" /\ ev'.done /\ ev'.success) =>
          LET d == ev'.duel
              t == duels[d].token
              W == ev'.W
              H == ev'.H
              txs == duels'[d].settlementTxSignatures
              toTreasury ==
                  /\ ev'.xfer.to = <<"treasury">> /\ ev'.xfer.ok
                  /\ ev'.xfer.amt = H /\ ev'.xfer.token = t
                  /\ ev'.xfer.tx # NoTx
                  /\ \E i \in 1..Len(txs) : txs[i] = ev'.xfer.tx
              toDust == dust'[t] = dust[t] + H
          IN  /\ W + H = ActualTotalPot(duels[d].player1.stakeAmount)
              /\ ev'.wxfer.ok /\ ev'.wxfer.amt = W /\ ev'.wxfer.token = t
              /\ verifyStealthId(ev'.wxfer.to, duels'[d].winnerStealthId)
              /\ H > 0 => (toTreasury \/ toDust) /\ ~(toTreasury /\ toDust)
              /\ H = 0 => dust' = dust]_vars

\* C8, its case: the fee was large enough to be sent, the treasury transfer
\* failed, and the fee is in the dust counter after a successful settle.
C8_Witness ==
    /\ ev.op = "settle" /\ ev.done /\ ev.success
    /\ ev.H > 0
    /\ ev.xfer.to = <<"treasury">> /\ ~ev.xfer.ok
    /\ dust[duels[ev.duel].token] = ev.H
    /\ ev.wxfer.ok /\ ev.wxfer.amt = ev.W

\* C9: the amounts a successful settle reports are A = floor(S (1 - f_d/100)),
\* P = 2 A, H = floor(P f_h / 100), W = P - H, with f_d the transfer backend's
\* fee for the duel's token (SOL 0.5 %, USD1 1 %).
C9_PerTokenDepositFee ==
    (ev.op = "settle" /\ ev.done /\ ev.success) =>
        LET duel == duels[ev.duel]
            S == duel.player1.stakeAmount
            A == MulDivFloor(S, 1000 - FeePermille(duel.token), 1000)
            P == 2 * A
            H == MulDivFloor(P, duel.houseFeePercent, 100)
        IN  ev.H = H /\ ev.W = P - H

\* C10: a settle call on a duel that became ACTIVE before expires_at, made
\* after expires_at, is not turned away as expired nor as not found.
C10_SettleAfterExpiry ==
    (/\ ev.op = "settle" /\ ev.done
     /\ ev.duel \in DuelIds
     /\ duels[ev.duel].status = "ACTIVE"
     /\ now > duels[ev.duel].expiresAt) =>
        ev.error \notin {"Duel not found", "Duel has expired"}

\* C11: a lock call by a participant that has not locked yet, on a duel in
\* PENDING_STAKES, is accepted when made at now = expires_at and rejected
\* when made at now = expires_at + 1.
C11_LockAtDeadline ==
    (ev.op = "lock" /\ ev.done /\ ev.duel \in DuelIds) =>
        LET duel == duels[ev.duel]
            isP1 == verifyStealthId(ev.wallet, duel.player1.stealthId)
            isP2 == verifyStealthId(ev.wallet, duel.player2.stealthId)
            stillOpen ==
                /\ duel.status = "PENDING_STAKES"
                /\ \/ isP1 /\ ~duel.player1.stakeLocked
                   \/ isP2 /\ ~duel.player2.stakeLocked
        IN  /\ (now = duel.expiresAt /\ stillOpen) => ev.success
            /\ (duel.status # "NONE" /\ now = duel.expiresAt + 1) => ~ev.success

\* C12: a refund call on a duel in PENDING_STAKES that returns after
\* expires_at has passed returns success and leaves the duel REFUNDED; with no
\* participant locked it made no transfer and returns an empty tx id list,
\* with one participant locked it made exactly one transfer, to that one.
C12_RefundAfterExpiry ==
    LET d == ev.duel
        duel == duels[d]
        p1 == duel.player1
        p2 == duel.player2
        locked == {p \in {p1, p2} : p.stakeLocked}
    IN  (/\ ev.op = "refund" /\ ev.done /\ d \in DuelIds
         /\ now > duel.expiresAt
         /\ Cardinality(locked) < 2
         /\ \/ duel.status = "PENDING_STAKES"
            \/ duel.status = "REFUNDED" /\ ev.success) =>
            /\ ev.success
            /\ duel.status = "REFUNDED"
            /\ ev.xfers = Cardinality(locked)
            /\ locked = {} => ev.txs = <<>>
            /\ \A p \in locked : verifyStealthId(ev.xfer.to, p.stealthId)

\* C13, as stated: a lock(d, P) call made after a successful lock(d, P), P
\* first or second to lock, returns the already-locked error, leaves every
\* field of d unchanged and makes no transfer-client call.
C13_RepeatedLockAlreadyLocked ==
    [][LET d == ev'.duel
           duel == duels[d]
           isP1 == verifyStealthId(ev'.wallet, duel.player1.stealthId)
           isP2 == verifyStealthId(ev'.wallet, duel.player2.stealthId)
       IN  (/\ ev'.op = "lock" /\ ev'.done /\ d \in DuelIds
            /\ \/ isP1 /\ duel.player1.stakeLocked
               \/ isP2 /\ duel.player2.stakeLocked) =>
               /\ ~ev'.success
               /\ ev'.error = "Stake already locked"
               /\ duels' = duels /\ calls' = calls /\ paid' = paid]_vars

\* C13, amended: such a call is always rejected, leaves every field of d
\* unchanged and makes no transfer-client call; the error is already-locked
\* exactly when d is still stored, in PENDING_STAKES and not past expires_at,
\* and otherwise not-found, invalid-status or expired.
C13_RepeatedLockRejected ==
    [][LET d == ev'.duel
           duel == duels[d]
           isP1 == verifyStealthId(ev'.wallet, duel.player1.stealthId)
           isP2 == verifyStealthId(ev'.wallet, duel.player2.stealthId)
           open == /\ store[d].has /\ store[d].expiresAt > now
                   /\ duel.status = "PENDING_STAKES"
                   /\ now <= duel.expiresAt
       IN  (/\ ev'.op = "lock" /\ ev'.done /\ d \in DuelIds
            /\ \/ isP1 /\ duel.player1.stakeLocked
               \/ isP2 /\ duel.player2.stakeLocked) =>
               /\ ~ev'.success
               /\ open => ev'.error = "Stake already locked"
               /\ ~open => ev'.error \in {"Duel not found", "Invalid duel status",
                                          "Duel has expired"}
               /\ duels' = duels /\ calls' = calls /\ paid' = paid]_vars

\* C13, its case: the second participant to lock calls lock again on the
\* duel, now ACTIVE, and is turned away for the duel's status.
C13_Witness ==
    /\ ev.op = "lock" /\ ev.done /\ ~ev.success
    /\ ev.duel \in DuelIds
    /\ duels[ev.duel].status = "ACTIVE"
    /\ ev.error = "Invalid duel status"
    /\ verifyStealthId(ev.wallet, duels[ev.duel].player2.stealthId)
    /\ duels[ev.duel].player2.stakeLocked
    /\ duels[ev.duel].player2.lockTimestamp >= duels[ev.duel].player1.lockTimestamp

\* C14: in every reachable state a duel whose status is ACTIVE has both
\* participants' stakes locked, also after a settle call has reverted it to
\* ACTIVE and under overlapping settle and refund calls.
C14_ActiveMeansBothLocked ==
    \A d \in DuelIds :
        duels[d].status = "ACTIVE" =>
            duels[d].player1.stakeLocked /\ duels[d].player2.stakeLocked

\* C14, its case: a settle call that overlapped a refund has exhausted its
\* retries and reverted the duel to ACTIVE.
C14_Witness ==
    \E d \in DuelIds :
        /\ duels[d].status = "ACTIVE"
        /\ d \in failedRecovery
        /\ paid[d].refund > 0
        /\ duels[d].player1.stakeLocked /\ duels[d].player2.stakeLocked

\* C15, as stated: in every reachable state, a duel with both participants'
\* stakes locked has status ACTIVE, PENDING_SETTLEMENT or SETTLED.
C15_BothLockedStatus ==
    \A d \in DuelIds :
        (duels[d].player1.stakeLocked /\ duels[d].player2.stakeLocked) =>
            duels[d].status \in {"ACTIVE", "PENDING_SETTLEMENT", "SETTLED"}

\* C15, amended: in every reachable state, a duel with both participants'
\* stakes locked has status ACTIVE, PENDING_SETTLEMENT, SETTLED or REFUNDED:
\* it is never still PENDING_STAKES.
C15_BothLockedNotPending ==
    \A d \in DuelIds :
        (duels[d].player1.stakeLocked /\ duels[d].player2.stakeLocked) =>
            duels[d].status \in {"ACTIVE", "PENDING_SETTLEMENT", "SETTLED", "REFUNDED"}

\* C15, its case: an ACTIVE duel has been refunded; both stakes stay locked.
C15_Witness ==
    \E d \in DuelIds :
        /\ duels[d].player1.stakeLocked /\ duels[d].player2.stakeLocked
        /\ duels[d].status = "REFUNDED"
        /\ ev.op = "refund" /\ ev.done /\ ev.success /\ ev.duel = d

\* C16: in every reachable state, for every duel whose status is SETTLED or
\* REFUNDED, the reverse stealth map has no entry for either participant's
\* stealth id, whatever other duels were created, settled or refunded.
C16_TerminalDuelsUnmapped ==
    \A d \in DuelIds :
        duels[d].status \in {"SETTLED", "REFUNDED"} =>
            /\ ~resolves(sessionMap, duels[d].player1.stealthId)
            /\ ~resolves(sessionMap, duels[d].player2.stealthId)

\* C17: for every duel whose status is SETTLED the audit log holds at least
\* one record whose commitment names that duel and the duel's recorded winner
\* stealth id, and whose stored hash is the hash of its stored commitment.
C17_SettledHasAuditRecord ==
    \A d \in DuelIds :
        duels[d].status = "SETTLED" =>
            \E i \in 1..Len(auditLog) :
                /\ auditLog[i].commitment.duelId = d
                /\ auditLog[i].commitment.winnerStealthId = duels[d].winnerStealthId
                /\ auditLog[i].commitmentHash = hashCommitment(auditLog[i].commitment)

\* C17, its case: two settle calls naming different winners both committed,
\* and the duel is SETTLED.
C17_Witness ==
    \E d \in DuelIds :
        /\ duels[d].status = "SETTLED"
        /\ Len(auditLog) = 2
        /\ auditLog[1].commitment.duelId = d
        /\ auditLog[2].commitment.duelId = d
        /\ auditLog[1].commitment.winnerStealthId
               # auditLog[2].commitment.winnerStealthId

\* C18: in every reachable state no duel id is in both pending_recovery and
\* failed_recovery.
C18_RecoverySetsDisjoint == pendingRecovery \cap failedRecovery = {}

\* C19: a refund call on a stored duel that is neither SETTLED nor REFUNDED
\* makes exactly one transfer attempt of the nominal stake S to each locked
\* participant whose wallet resolves and none for the others, player 1 first;
\* it then sets REFUNDED, unregisters both stealth ids, and returns the tx
\* ids of the successful transfers only.
C19_RefundPaysNominalStake ==
    [][\A d \in DuelIds :
        (/\ ev'.op = "refund" /\ ev'.done /\ ev'.duel = d
         /\ getDuelFound(store, d)
         /\ duels[d].status \notin {"SETTLED", "REFUNDED"}) =>
            LET Due(p) ==
                    IF p.stakeLocked /\ resolves(sessionMap, p.stealthId)
                    THEN <<[to |-> sessionMap[p.stealthId], amt |-> p.stakeAmount]>>
                    ELSE <<>>
                due == Due(duels[d].player1) \o Due(duels[d].player2)
                ok == SelectSeq(ev'.answers, LAMBDA a : a.ok)
            IN  /\ ev'.success
                /\ Len(ev'.answers) = Len(due)
                /\ ev'.xfers = Len(due)
                /\ \A i \in 1..Len(due) :
                        /\ ev'.answers[i].to = due[i].to
                        /\ ev'.answers[i].amt = due[i].amt
                        /\ ev'.answers[i].token = duels[d].token
                /\ duels'[d].status = "REFUNDED"
                /\ ~resolves(sessionMap', duels[d].player1.stealthId)
                /\ ~resolves(sessionMap', duels[d].player2.stealthId)
                /\ Len(ev'.txs) = Len(ok)
                /\ \A i \in 1..Len(ok) : ev'.txs[i] = ok[i].tx
                /\ duels'[d].settlementTxSignatures = ev'.txs]_vars

\* C19, its case: a refund of a duel with both stakes locked has returned;
\* the transfer of the stake to player 1 failed and the one to player 2
\* succeeded, and the returned list holds the second tx id alone.
C19_Witness ==
    \E d \in DuelIds :
        /\ ev.op = "refund" /\ ev.done /\ ev.success /\ ev.duel = d
        /\ duels[d].player1.stakeLocked /\ duels[d].player2.stakeLocked
        /\ Len(ev.answers) = 2
        /\ ~ev.answers[1].ok /\ ev.answers[2].ok
        /\ ev.answers[2].amt = duels[d].player2.stakeAmount
        /\ ev.answers[2].amt # ActualDepositPerPlayer(duels[d].player2.stakeAmount)
        /\ ev.txs = <<ev.answers[2].tx>>

\* C20: an emergency refund attempts one transfer of A = floor(S (1 - f_d/100))
\* to each of the two given wallets, f_d being the transfer backend's fee for
\* the given token; when both succeed it takes the duel id out of both
\* recovery sets and marks the record, if still stored, REFUNDED; when one
\* fails it returns success = false and leaves the recovery sets and the
\* duel's status as they were.
C20_EmergencyRefund ==
    [][\A d \in DuelIds :
        (ev'.op = "emergency" /\ ev'.done /\ ev'.duel = d) =>
            LET c == calls[ev'.slot]
                A == MulDivFloor(c.stakePerPlayerLamports,
                                 1000 - FeePermille(c.token), 1000)
                a == ev'.answers
            IN  /\ Len(a) = 2 /\ ev'.xfers = 2
                /\ a[1].to = c.w1 /\ a[1].amt = A /\ a[1].token = c.token
                /\ a[2].to = c.w2 /\ a[2].amt = A /\ a[2].token = c.token
                /\ IF a[1].ok /\ a[2].ok
                   THEN /\ ev'.success
                        /\ d \notin pendingRecovery'
                        /\ d \notin failedRecovery'
                        /\ getDuelFound(store, d) => duels'[d].status = "REFUNDED"
                        /\ ~getDuelFound(store, d) => duels'[d] = duels[d]
                   ELSE /\ ~ev'.success
                        /\ pendingRecovery' = pendingRecovery
                        /\ failedRecovery' = failedRecovery
                        /\ duels'[d].status = duels[d].status]_vars

C23_RejectedSettleChangesNothing ==
    [][\A d \in DuelIds :
        (/\ ev'.op = "settle" /\ ev'.duel = d /\ ev'.wallet # <<>>
         /\ getDuelFound(store, d)
         /\ \/ duels[d].status \notin {"ACTIVE", "PENDING_SETTLEMENT"}
            \/ /\ ~verifyStealthId(ev'.wallet, duels[d].player1.stealthId)
               /\ ~verifyStealthId(ev'.wallet, duels[d].player2.stealthId)) =>
            /\ ev'.done /\ ~ev'.success
            /\ ev'.error \in {"Invalid duel status", "Winner not part of this duel"}
            /\ duels' = duels /\ store' = store
            /\ auditLog' = auditLog
            /\ pendingRecovery' = pendingRecovery
            /\ failedRecovery' = failedRecovery
            /\ dust' = dust /\ sessionMap' = sessionMap
            /\ calls' = calls /\ paid' = paid]_vars

\* C23, its case: a settle of an ACTIVE duel naming a wallet that is not one
\* of its two players has been turned away.
C23_Witness ==
    \E d \in DuelIds :
        /\ ev.op = "settle" /\ ev.done /\ ~ev.success /\ ev.duel = d
        /\ ev.error = "Winner not part of this duel"
        /\ duels[d].status = "ACTIVE"
        /\ ev.wallet = WalletC

\* C24: for each token, a create call whose stake in smallest units equals
\* the token's minimum is accepted and yields a stored PENDING_STAKES duel
\* with both wallets registered, and a create call whose stake is below the
\* minimum is rejected with 'Stake too low' and leaves the duels, the store
\* and the reverse stealth map unchanged.
C24_MinimumStake ==
    [][ev'.op = "create" =>
        /\ ev'.stake = TOKEN_MINIMUMS(ev'.token) =>
                /\ ev'.success
                /\ duels'[ev'.duel].status = "PENDING_STAKES"
                /\ duels'[ev'.duel].token = ev'.token
                /\ duels'[ev'.duel].player1.stakeAmount = ev'.stake
                /\ duels'[ev'.duel].player2.stakeAmount = ev'.stake
                /\ getDuelFound(store', ev'.duel)
                /\ resolves(sessionMap', duels'[ev'.duel].player1.stealthId)
                /\ resolves(sessionMap', duels'[ev'.duel].player2.stealthId)
        /\ ev'.stake < TOKEN_MINIMUMS(ev'.token) =>
                /\ ~ev'.success
                /\ ev'.error = "Stake too low"
                /\ duels' = duels /\ store' = store
                /\ sessionMap' = sessionMap]_vars

\* C24, its case: a create of a USD1 duel at exactly 5.5 USD1 has been
\* accepted.
C24_Witness ==
    /\ ev.op = "create" /\ ev.success
    /\ ev.token = "USD1" /\ ev.stake = 5500000
    /\ duels[ev.duel].status = "PENDING_STAKES"

\* C25: scenario E1 (SOL, house fee 2 %): a create with 0.1 SOL per player
\* is accepted with a stake of 100000000 lamports and status PENDING_STAKES;
\* once both players have locked the duel is ACTIVE with bothLocked = true;
\* a settle for player 1 returns a winner payout of 195020000 and a treasury
\* fee of 3980000 and leaves the duel SETTLED.
C25_HappyPathE1 ==
    /\ (ev.op = "create" /\ ev.token = "SOL" /\ ev.stake = 100000000) =>
            /\ ev.success
            /\ duels[ev.duel].status = "PENDING_STAKES"
            /\ duels[ev.duel].player1.stakeAmount = 100000000
    /\ \A d \in DuelIds :
         (duels[d].token = "SOL" /\ duels[d].player1.stakeAmount = 100000000) =>
            /\ (/\ ev.op = "lock" /\ ev.done /\ ev.success /\ ev.duel = d
                /\ duels[d].player1.stakeLocked /\ duels[d].player2.stakeLocked) =>
                    ev.bothLocked /\ duels[d].status = "ACTIVE"
            /\ (/\ ev.op = "settle" /\ ev.done /\ ev.success /\ ev.duel = d
                /\ duels[d].houseFeePercent = 2) =>
                    /\ ev.W = 195020000 /\ ev.H = 3980000
                    /\ duels[d].status = "SETTLED"

\* C26: a dust sweep for token T reports under-minimum, makes no transfer
\* and leaves dust[T] unchanged when dust[T] is below T's own minimum
\* transfer; otherwise it makes exactly one treasury transfer of dust[T];
\* when the transfer succeeds dust[T] becomes 0 and the tx id is returned,
\* when it fails dust[T] is unchanged.
C26_SweepPerTokenMinimum ==
    [][ev'.op = "sweep" =>
        LET T == ev'.token
            inFlight == \E s \in Slots : calls[s].kind = "sweep"
        IN  IF ~inFlight
            THEN IF dust[T] < TRANSFER_MINIMUMS(T)
                 THEN /\ ev'.done /\ ~ev'.success
                      /\ ev'.error = "below minimum"
                      /\ calls' = calls /\ dust' = dust
                 ELSE /\ ~ev'.done
                      /\ calls'[ev'.slot].kind = "sweep"
                      /\ calls'[ev'.slot].xfers = 1
                      /\ calls'[ev'.slot].req.amt = dust[T]
                      /\ calls'[ev'.slot].req.token = T
                      /\ calls'[ev'.slot].req.to = <<"treasury">>
                      /\ dust' = dust
            ELSE /\ ev'.done
                 /\ calls[ev'.slot].xfers = 1
                 /\ IF ev'.xfer.ok
                    THEN /\ ev'.success /\ dust'[T] = 0
                         /\ ev'.wtx = ev'.xfer.tx /\ ev'.wtx # NoTx
                    ELSE ~ev'.success /\ dust' = dust]_vars

\* C27: in settle, once the winner is paid, the house fee H is sent to the
\* treasury in one attempt exactly when H is at least the token's minimum
\* transfer (100000000 for SOL), and is added to the token's dust without a
\* transfer exactly when H is below it.
C27_FeeThreshold ==
    [][\A s \in Slots :
        (calls[s].kind = "settle" /\ ev'.op = "settle" /\ ev'.slot = s) =>
            LET d == calls[s].duel
                T == duels[d].token
                H == calls[s].H
            IN  /\ (calls[s].pc = "pay" /\ paid'[d].winner > paid[d].winner) =>
                     IF H >= TRANSFER_MINIMUMS(T)
                     THEN /\ calls'[s].pc = "treasury"
                          /\ calls'[s].xfers = calls[s].xfers + 1
                          /\ calls'[s].req.to = <<"treasury">>
                          /\ calls'[s].req.amt = H
                          /\ calls'[s].req.token = T
                          /\ dust' = dust
                     ELSE /\ ev'.done /\ ev'.success
                          /\ ev'.xfers = calls[s].xfers
                          /\ dust' = accumulateDust(dust, T, H)
                /\ calls[s].pc = "treasury" => ev'.done /\ ev'.xfers = calls[s].xfers]_vars

\* C28: lock-stake, settle and refund answer a well-formed request for a duel
\* id the store does not hold with HTTP 404, and answer a precondition
\* violation on a stored duel (bad status, expired, wrong player) with HTTP
\* 200 and success = false.
C28_UnknownDuelIs404 ==
    [][(ev'.op \in {"lock", "settle", "refund"} /\ ev'.done /\ ev'.duel \in DuelIds) =>
        /\ (Quiet /\ ~getDuelFound(store, ev'.duel)) =>
                ev'.http = 404 /\ ~ev'.success
        /\ (Quiet /\ getDuelFound(store, ev'.duel) /\ ~ev'.success) =>
                /\ ev'.http = 200
                /\ ev'.error \in {"Invalid duel status", "Duel has expired",
                                  "Player not part of this duel",
                                  "Winner not part of this duel",
                                  "Stake already locked",
                                  "Duel already settled",
                                  "Duel already refunded"}]_vars

C30_FixedWindowRateLimit ==
    [][(request' # NoRequest /\ request'.mount = "/api/v1/duel"
                             /\ request'.method # "OPTIONS") =>
        LET c == request'.client
            old == rateLimitMap[c]
            new == rateLimitMap'[c]
            open == old.has /\ now <= old.resetAt
            passed == ev'.op # "gate"
        IN  /\ \A o \in Clients \ {c} : rateLimitMap'[o] = rateLimitMap[o]
            /\ open => /\ new.count = old.count + 1
                       /\ new.resetAt = old.resetAt
                       /\ passed <=> old.count < RATE_LIMIT_MAX
            /\ ~open => /\ new.count = 1
                        /\ new.resetAt = now + RATE_LIMIT_WINDOW_MS
                        /\ passed
            /\ ~passed => /\ ev'.http = 429
                          /\ ev'.retryAfter >= 0
                          /\ (ev'.retryAfter - 1) * 1000 < new.resetAt - now
                          /\ new.resetAt - now <= ev'.retryAfter * 1000]_vars

\* C30, its case: one client was over the limit when its window ended, and
\* its first request after the end has been passed on with a count of 1,
\* while the other client's count is untouched.
C30_Witness ==
    /\ request.client = "ip1" /\ ev.op = "service-info"
    /\ now > RATE_LIMIT_WINDOW_MS
    /\ rateLimitMap["ip1"].count = 1
    /\ rateLimitMap["ip1"].resetAt = now + RATE_LIMIT_WINDOW_MS
    /\ rateLimitMap["ip2"].count > RATE_LIMIT_MAX

C32_RetryDiscipline ==
    [][/\ \A s \in Slots :
            LET c == calls'[s]
                failed(i) == ~c.answers[i].ok /\ c.answers[i].to = c.winner
            IN  c.kind = "settle" /\ c.pc # "commit" =>
                  /\ c.attempt \in 1..MAX_RETRIES
                  /\ c.pc = "pay" =>
                        /\ c.xfers = c.attempt /\ Len(c.answers) = c.attempt - 1
                        /\ c.req.to = c.winner
                        /\ \A i \in 1..Len(c.answers) : failed(i)
                  /\ c.pc = "delay" =>
                        /\ c.xfers = c.attempt /\ Len(c.answers) = c.attempt
                        /\ \A i \in 1..Len(c.answers) : failed(i)
                  /\ c.pc = "treasury" =>
                        /\ c.xfers = c.attempt + 1 /\ Len(c.answers) = c.attempt
                        /\ c.req.to = <<"treasury">>
                        /\ c.answers[c.attempt].ok
                        /\ c.answers[c.attempt].to = c.winner
                        /\ \A i \in 1..(c.attempt - 1) : failed(i)
       /\ (ev'.op = "settle" /\ ev'.done /\ ev'.slot # 0) =>
            LET treasury == ev'.xfer.to = <<"treasury">>
                winnerAttempts == ev'.xfers - (IF treasury THEN 1 ELSE 0)
            IN  /\ winnerAttempts \in 1..MAX_RETRIES
                /\ ev'.success =>
                      /\ ev'.wxfer.ok
                      /\ ev'.nfail = (winnerAttempts - 1)
                                        + (IF treasury /\ ~ev'.xfer.ok THEN 1 ELSE 0)
                /\ ~ev'.success =>
                      /\ winnerAttempts = MAX_RETRIES /\ ev'.nfail = MAX_RETRIES
                      /\ ~treasury
                      /\ dust' = dust]_vars

\* C32, its case: a settle call whose first two winner payouts failed and
\* whose third succeeded has made its one treasury transfer and returned.
C32_Witness ==
    /\ ev.op = "settle" /\ ev.done /\ ev.success
    /\ ev.xfers = MAX_RETRIES + 1 /\ ev.nfail = MAX_RETRIES - 1
    /\ ev.ttx # NoTx

\* C33: a settle call that has passed its preconditions attempts the
\* commitment publication exactly once, in the step that ends its wait for
\* the ledger, and that step appends exactly one record, of its duel, to the
\* audit log; no later step of the call (a payout attempt, a retry delay, a
\* treasury transfer, the return) publishes or appends again, so a call
\* returns with one publication and one record whether it made 1, 2 or 3
\* payout attempts.
C33_OnePublicationOneRecord ==
    [][LET committing == {s \in Slots : /\ calls[s].kind = "settle"
                                        /\ calls[s].pc = "commit"
                                        /\ calls'[s].pc # "commit"}
       IN  /\ \A s \in Slots :
                /\ (calls[s].kind = "settle" /\ calls[s].pc # "commit")
                        => calls'[s].pc # "commit"
                /\ (calls'[s].kind = "settle" /\ calls'[s].pc # "commit")
                        => calls'[s].audited
                /\ s \in committing =>
                        /\ calls'[s].kind = "settle" /\ calls'[s].attempt = 1
                        /\ ev'.published \in {"ok", "failed"}
                        /\ Len(auditLog') = Len(auditLog) + 1
                        /\ auditLog'[Len(auditLog')].commitment.duelId = calls[s].duel
                        /\ SubSeq(auditLog', 1, Len(auditLog)) = auditLog
           /\ committing = {} => (auditLog' = auditLog /\ ev'.published = "")
           /\ Cardinality(committing) <= 1
           /\ (ev'.op = "settle" /\ ev'.done /\ ev'.slot # 0) =>
                    /\ calls[ev'.slot].audited
                    /\ ev'.xfers \in 1..(MAX_RETRIES + 1)]_vars

\* C33, its case: a settle call has returned after three payout attempts and
\* the audit log holds the one record it appended.
C33_Witness ==
    /\ ev.op = "settle" /\ ev.done /\ ev.success
    /\ ev.xfers = MAX_RETRIES
    /\ Len(auditLog) = 1
    /\ auditLog[1].commitment.duelId = ev.duel

\* C34: when a duel enters PENDING_SETTLEMENT, is reverted from it to ACTIVE,
\* or reaches SETTLED or REFUNDED, its store expiry is set to the time of
\* that write plus 24 h; while the duel is in one of these states the expiry
\* is never shortened and the item leaves the store only at or after its
\* expiry; and a read of a duel answers with the record at every time
\* before the stored expiry and with 404 at or after it, evicting the item.
C34_RetentionTTL ==
    [][\A d \in DuelIds :
          LET old == duels[d].status
              new == duels'[d].status
              retained(st) ==
                  \/ st \in {"PENDING_SETTLEMENT", "SETTLED", "REFUNDED"}
                  \/ st = "ACTIVE" /\ d \in failedRecovery
          IN  /\ (new # old /\ (\/ new \in {"PENDING_SETTLEMENT", "SETTLED", "REFUNDED"}
                                 \/ (old = "PENDING_SETTLEMENT" /\ new = "ACTIVE"))) =>
                    store'[d] = [has |-> TRUE, expiresAt |-> now + 24 * 60 * 60 * 1000]
              /\ (retained(old) /\ store[d].has) =>
                    \/ store'[d].has /\ store'[d].expiresAt >= store[d].expiresAt
                    \/ ~store'[d].has /\ now >= store[d].expiresAt
              /\ (ev'.op = "get" /\ ev'.duel = d) =>
                    IF store[d].has /\ now < store[d].expiresAt
                    THEN ev'.http = 200 /\ ev'.success /\ store'[d] = store[d]
                    ELSE ev'.http = 404 /\ ~ev'.success /\ store'[d] = NoItem]_vars

\* C34, its case: a read of a SETTLED duel exactly 24 h after the write that
\* settled it has found nothing and evicted the item.
C34_Witness ==
    \E d \in DuelIds :
        /\ ev.op = "get" /\ ev.duel = d /\ ev.http = 404
        /\ duels[d].status = "SETTLED"
        /\ now = duels[d].updatedAt + SETTLEMENT_TTL
        /\ ~store[d].has

\* C35: every settle call that has passed its preconditions eventually
\* returns, given that every backend call is answered and every retry timer
\* fires; with no other call on the duel in between, at the return the duel
\* is SETTLED when the call succeeded and ACTIVE when it failed, never
\* PENDING_SETTLEMENT, and on success settlement_tx_ids holds the winner tx
\* id followed by the treasury tx id when a treasury transfer succeeded.
C35_SettleReturns ==
    /\ \A s \in Slots :
            (calls[s].kind = "settle")
                ~> (ev.op = "settle" /\ ev.done /\ ev.slot = s /\ calls[s].kind = "idle")
    /\ [][(ev'.op = "settle" /\ ev'.done /\ ev'.slot # 0) =>
            LET duel == duels'[ev'.duel]
                treasuryPaid == ev'.xfer.to = <<"treasury">> /\ ev'.xfer.ok
            IN  /\ duel.status = IF ev'.success THEN "SETTLED" ELSE "ACTIVE"
                /\ ev'.success =>
                      /\ ev'.wxfer.ok /\ ev'.wxfer.to = calls[ev'.slot].winner
                      /\ ev'.wtx = ev'.wxfer.tx /\ ev'.wtx # NoTx
                      /\ ev'.ttx = IF treasuryPaid THEN ev'.xfer.tx ELSE NoTx
                      /\ treasuryPaid => ev'.ttx # NoTx
                      /\ duel.settlementTxSignatures =
                            IF treasuryPaid THEN <<ev'.wtx, ev'.ttx>> ELSE <<ev'.wtx>>]_vars

\* C35, its case: a settle call has returned success and the duel's tx ids
\* are the winner's and the treasury's.
C35_Witness ==
    \E d \in DuelIds :
        /\ ev.op = "settle" /\ ev.done /\ ev.success /\ ev.duel = d
        /\ duels[d].status = "SETTLED"
        /\ Len(duels[d].settlementTxSignatures) = 2
        /\ duels[d].settlementTxSignatures[2] = <<"tx", <<"treasury">>>>

\* C36: for every duel, under any interleaving of settle and refund calls on
\* it, it is never the case that a winner-payout transfer of the duel has
\* succeeded and a refund transfer to one of its participants has also
\* succeeded.
C36_NoPayoutAndRefund ==
    \A d \in DuelIds : ~(paid[d].winner > 0 /\ paid[d].refund > 0)

\* C37: dust is conserved per token under any interleaving of settle and
\* sweep calls.  Step by step: dust[T] grows by exactly the house fee a
\* settle call accumulates and shrinks by exactly the amount a sweep has
\* successfully transferred to the treasury, so that the fees ever
\* accumulated equal the current dust plus the amounts swept; a sweep's
\* reset drops no accumulated fee and no amount is swept twice.
C37_DustConserved ==
    [][\A t \in Tokens :
          LET accumulated == IF ev'.op = "settle" /\ ev'.done /\ ev'.success
                                /\ duels[ev'.duel].token = t
                             THEN ev'.dustAdd ELSE 0
              swept == IF ev'.op = "sweep" /\ ev'.done /\ ev'.success /\ ev'.token = t
                       THEN ev'.xfer.amt ELSE 0
          IN  dust'[t] = dust[t] + accumulated - swept]_vars

\* C38: for every SETTLED duel, the record getCommitmentRecord returns for
\* it (the one /verify/:duelId reports) names as winner the duel's
\* winner_stealth_id, also when an earlier settle call on the duel declared
\* the other participant the winner and failed after its retries.
C38_VerifyReportsWinner ==
    \A d \in DuelIds :
        duels[d].status = "SETTLED" =>
            LET record == getCommitmentRecord(auditLog, d)
            IN  /\ record # <<>>
                /\ record[1].commitment.winnerStealthId = duels[d].winnerStealthId

\* C39: in every reachable state, for every stored duel whose status is
\* PENDING_STAKES, ACTIVE or PENDING_SETTLEMENT, both participants' stealth
\* ids resolve to a wallet in the reverse stealth map, also when one of its
\* wallets takes part in another duel that is settled or refunded meanwhile.
C39_LiveDuelsResolve ==
    \A d \in DuelIds :
        (/\ getDuelFound(store, d)
         /\ duels[d].status \in {"PENDING_STAKES", "ACTIVE", "PENDING_SETTLEMENT"}) =>
            /\ resolves(sessionMap, duels[d].player1.stealthId)
            /\ resolves(sessionMap, duels[d].player2.stealthId)

\* C40: in every reachable state, a duel whose status is SETTLED is in
\* neither pending_recovery nor failed_recovery, also when an earlier settle
\* call on it exhausted its retries before a later settle call succeeded.
C40_SettledNotInRecovery ==
    \A d \in DuelIds :
        duels[d].status = "SETTLED" =>
            d \notin pendingRecovery /\ d \notin failedRecovery

====
